---- MODULE Spec2Model ----
(***************************************************************************)
(* Installed-package discovery and caching engine of Pailer                *)
(* (src-tauri/src/commands/installed.rs), with the callers of its cache    *)
(* (refresh, invalidation, path change).                                   *)
(*                                                                         *)
(* Strings are sequences of one-character strings, so that formatting,     *)
(* lower-casing and lexicographic sorting are computed, not assumed.       *)
(***************************************************************************)
EXTENDS Naturals, Sequences, FiniteSets, TLC

(***************************************************************************)
(* Characters and strings                                                  *)
(***************************************************************************)

\* ASCII code of the characters that occur in names, stamps and fingerprints.
Ord(c) ==
  CASE c = "+" -> 43 [] c = "-" -> 45 [] c = "." -> 46
    [] c = "0" -> 48 [] c = "1" -> 49 [] c = "2" -> 50 [] c = "3" -> 51
    [] c = "4" -> 52 [] c = "5" -> 53 [] c = "6" -> 54 [] c = "7" -> 55
    [] c = "8" -> 56 [] c = "9" -> 57
    [] c = ":" -> 58 [] c = ";" -> 59
    [] c = "A" -> 65 [] c = "B" -> 66 [] c = "C" -> 67
    [] c = "_" -> 95
    [] c = "a" -> 97 [] c = "b" -> 98 [] c = "c" -> 99
    [] c = "|" -> 124
    [] OTHER -> 120

Digits == {"0", "1", "2", "3", "4", "5", "6", "7", "8", "9"}

IsAsciiDigit(c) == c \in Digits

IsAsciiAlphanumeric(c) ==
  \/ c \in Digits
  \/ (Ord(c) >= 65 /\ Ord(c) <= 90)
  \/ (Ord(c) >= 97 /\ Ord(c) <= 122)

\* char::to_ascii_lowercase
ToAsciiLowerChar(c) ==
  CASE c = "A" -> "a" [] c = "B" -> "b" [] c = "C" -> "c" [] OTHER -> c

\* str::to_ascii_lowercase
ToAsciiLowercase(s) == [i \in 1..Len(s) |-> ToAsciiLowerChar(s[i])]

\* Byte-wise lexicographic order of two strings (Ord for String): s < t.
RECURSIVE StrLess(_, _)
StrLess(s, t) ==
  IF t = <<>> THEN FALSE
  ELSE IF s = <<>> THEN TRUE
  ELSE IF Ord(Head(s)) < Ord(Head(t)) THEN TRUE
  ELSE IF Ord(Head(s)) > Ord(Head(t)) THEN FALSE
  ELSE StrLess(Tail(s), Tail(t))

\* Variant of the sort that leaves the entries in the order given.
SortStrings_Unsorted(l) == l

\* Insert string x into the sorted list of strings l, after its equals.
RECURSIVE InsertSorted(_, _)
InsertSorted(x, l) ==
  IF l = <<>> THEN <<x>>
  ELSE IF StrLess(x, Head(l)) THEN <<x>> \o l
  ELSE <<Head(l)>> \o InsertSorted(x, Tail(l))

\* Vec<String>::sort
RECURSIVE SortStrings(_)
SortStrings(l) ==
  IF l = <<>> THEN <<>>
  ELSE InsertSorted(l[Len(l)], SortStrings(SubSeq(l, 1, Len(l) - 1)))

\* [String]::join(sep)
RECURSIVE Join(_, _)
Join(l, sep) ==
  IF l = <<>> THEN <<>>
  ELSE IF Len(l) = 1 THEN l[1]
  ELSE l[1] \o sep \o Join(Tail(l), sep)

DigitChar(d) ==
  CASE d = 0 -> "0" [] d = 1 -> "1" [] d = 2 -> "2" [] d = 3 -> "3"
    [] d = 4 -> "4" [] d = 5 -> "5" [] d = 6 -> "6" [] d = 7 -> "7"
    [] d = 8 -> "8" [] OTHER -> "9"

\* Display of an unsigned integer in decimal ("{}" of format!).
RECURSIVE Dec(_)
Dec(n) == IF n < 10 THEN <<DigitChar(n)>> ELSE Dec(n \div 10) \o <<DigitChar(n % 10)>>

\* The elements of sequence s that satisfy Test, in order.
RECURSIVE SelectIdx(_, _, _)
SelectIdx(s, Test(_), i) ==
  IF i > Len(s) THEN <<>>
  ELSE (IF Test(s[i]) THEN <<s[i]>> ELSE <<>>) \o SelectIdx(s, Test, i + 1)

Filter(s, Test(_)) == SelectIdx(s, Test, 1)

Range(s) == {s[i] : i \in 1..Len(s)}

(***************************************************************************)
(* The file tree                                                           *)
(*                                                                         *)
(* A JSON file: ok = it parses as JSON, typed = it parses as the struct    *)
(* the loader asks for, version / bucket / descr = its fields (<<>> when   *)
(* the field is absent).  An entry of a package directory: a directory     *)
(* (version directory or `current`) with its files, or a plain file.       *)
(* A package directory: an entry of apps/ with its sub-entries in          *)
(* enumeration order.  A bucket: its name and the package manifests under  *)
(* buckets/{name}/bucket/.                                                 *)
(***************************************************************************)

\* Option<T>: None is the empty sequence, Some(x) the one-element sequence.
None == <<>>
Some(x) == <<x>>
IsSome(o) == o # <<>>
Unwrap(o) == o[1]

CURRENT == <<"c", "u", "r", "r", "e", "n", "t">>
UNKNOWN == <<"u", "n", "k", "n", "o", "w", "n">>
CUSTOM == <<"C", "u", "s", "t", "o", "m">>
PACKAGE_PREFIX == <<"P", "a", "c", "k", "a", "g", "e", ":", " ">>
CUSTOM_SUFFIX ==
  <<" ", "(", "C", "u", "s", "t", "o", "m", " ", "i", "n", "s", "t", "a", "l", "l",
    "a", "t", "i", "o", "n", ")">>
INSTALL_JSON == "install.json"
MANIFEST_JSON == "manifest.json"

File(name, isJson, ok, typed, version, bucket, descr, mtime) ==
  [name |-> name, isJson |-> isJson, ok |-> ok, typed |-> typed,
   version |-> version, bucket |-> bucket, descr |-> descr, mtime |-> mtime]

Entry(name, isDir, mtime, files) ==
  [name |-> name, isDir |-> isDir, mtime |-> mtime, files |-> files]

PkgDir(name, utf8, isDir, mtime, subs) ==
  [name |-> name, utf8 |-> utf8, isDir |-> isDir, mtime |-> mtime, subs |-> subs]

Bucket(name, isDir, manifests) ==
  [name |-> name, isDir |-> isDir, manifests |-> manifests]

World(apps, buckets) == [apps |-> apps, buckets |-> buckets]

\* Result<T, String>: the error text is not modelled.
Ok(v) == [ok |-> TRUE, val |-> v]
Err == [ok |-> FALSE, val |-> <<>>]

(***************************************************************************)
(* Filesystem Probe                                                        *)
(***************************************************************************)

HasFile(e, n) == \E i \in 1..Len(e.files) : e.files[i].name = n

GetFile(e, n) == e.files[CHOOSE i \in 1..Len(e.files) : e.files[i].name = n]

\* fs::metadata(install.json) or else manifest.json or else the directory.
get_install_modification_time(e) ==
  IF HasFile(e, INSTALL_JSON) THEN GetFile(e, INSTALL_JSON).mtime
  ELSE IF HasFile(e, MANIFEST_JSON) THEN GetFile(e, MANIFEST_JSON).mtime
  ELSE e.mtime

get_path_modification_time(d) == d.mtime

\* Variant of the candidate filter that takes any directory other than `current`.
IsVersionCandidate_AnyDir(e) ==
  /\ e.isDir
  /\ ToAsciiLowercase(e.name) # CURRENT

\* The candidates of find_latest_version_dir, in enumeration order.
IsVersionCandidate(e) ==
  /\ e.isDir
  /\ ToAsciiLowercase(e.name) # CURRENT
  /\ (HasFile(e, INSTALL_JSON) \/ HasFile(e, MANIFEST_JSON))

VersionCandidates(d) == Filter(d.subs, IsVersionCandidate)

\* Variant of the fallback that, of the candidates with the greatest stamp,
\* takes the last in enumeration order.
find_latest_version_dir_LastOnTie(d) ==
  LET c == VersionCandidates(d)
  IN  IF c = <<>> THEN None
      ELSE LET best == CHOOSE i \in 1..Len(c) :
                         /\ \A j \in 1..Len(c) :
                              get_install_modification_time(c[j])
                                <= get_install_modification_time(c[i])
                         /\ \A j \in (i + 1)..Len(c) :
                              get_install_modification_time(c[j])
                                < get_install_modification_time(c[i])
           IN  Some(c[best])

\* sort_by(|a, b| b.0.cmp(&a.0)) is stable: of the candidates with the greatest
\* stamp, the first in enumeration order comes first.
find_latest_version_dir(d) ==
  LET c == VersionCandidates(d)
  IN  IF c = <<>> THEN None
      ELSE LET best == CHOOSE i \in 1..Len(c) :
                         /\ \A j \in 1..Len(c) :
                              get_install_modification_time(c[j])
                                <= get_install_modification_time(c[i])
                         /\ \A j \in 1..(i - 1) :
                              get_install_modification_time(c[j])
                                < get_install_modification_time(c[i])
           IN  Some(c[best])

extract_package_name(d) == IF d.utf8 THEN Ok(d.name) ELSE Err

CurrentDir(d) == Filter(d.subs, LAMBDA e : e.name = CURRENT /\ e.isDir)

\* Variant of the resolution that prefers the latest version directory to
\* `current`.
locate_install_dir_VersionFirst(d) ==
  IF ~extract_package_name(d).ok THEN Err
  ELSE IF IsSome(find_latest_version_dir(d)) THEN Ok(Unwrap(find_latest_version_dir(d)))
  ELSE IF CurrentDir(d) # <<>> THEN Ok(CurrentDir(d)[1])
  ELSE Err

locate_install_dir(d) ==
  IF ~extract_package_name(d).ok THEN Err
  ELSE IF CurrentDir(d) # <<>> THEN Ok(CurrentDir(d)[1])
  ELSE IF IsSome(find_latest_version_dir(d)) THEN Ok(Unwrap(find_latest_version_dir(d)))
  ELSE Err

\* Variant of the recognizer that does not look at the first and last character.
is_valid_version_string_AnyEdge(s) ==
  /\ s # <<>>
  /\ \E i \in 1..Len(s) : IsAsciiDigit(s[i])
  /\ ~(\E i \in 1..Len(s) :
         ~IsAsciiAlphanumeric(s[i]) /\ s[i] # "." /\ s[i] # "-" /\ s[i] # "_")

is_valid_version_string(s) ==
  /\ s # <<>>
  /\ \E i \in 1..Len(s) : IsAsciiDigit(s[i])
  /\ ~(\E i \in 1..Len(s) :
         ~IsAsciiAlphanumeric(s[i]) /\ s[i] # "." /\ s[i] # "-" /\ s[i] # "_")
  /\ s[1] \notin {".", "-"}
  /\ s[Len(s)] \notin {".", "-"}

(***************************************************************************)
(* Fingerprint Engine                                                      *)
(***************************************************************************)

\* Variant of the stamp that always reads the package directory's own time.
Stamp_DirTime(d) ==
  ToAsciiLowercase(d.name) \o <<":">> \o Dec(get_path_modification_time(d))

Stamp(d) ==
  ToAsciiLowercase(d.name) \o <<":">> \o
    Dec(IF locate_install_dir(d).ok
          THEN get_install_modification_time(locate_install_dir(d).val)
          ELSE get_path_modification_time(d))

\* Variant of the fingerprint whose count is the number of stamps.
compute_apps_fingerprint_CountStamps(app_dirs) ==
  LET named == Filter(app_dirs, LAMBDA d : d.utf8)
      entries == [i \in 1..Len(named) |-> Stamp(named[i])]
  IN  Dec(Len(named)) \o <<"|">> \o Join(SortStrings(entries), <<";">>)

compute_apps_fingerprint(app_dirs) ==
  LET named == Filter(app_dirs, LAMBDA d : d.utf8)
      entries == [i \in 1..Len(named) |-> Stamp(named[i])]
  IN  Dec(Len(app_dirs)) \o <<"|">> \o Join(SortStrings(entries), <<";">>)

(***************************************************************************)
(* Manifest Resolver                                                       *)
(***************************************************************************)

PackageManifest(version, description) ==
  [version |-> version, description |-> description]

InstallManifest(bucket) == [bucket |-> bucket]

\* Variant of the manifest loader that fails when manifest.json is missing.
LoadManifestFile_Strict(root, package_name) ==
  IF HasFile(root, MANIFEST_JSON) /\ GetFile(root, MANIFEST_JSON).typed
    THEN Ok(PackageManifest(Unwrap(GetFile(root, MANIFEST_JSON).version),
                            GetFile(root, MANIFEST_JSON).descr))
    ELSE Err

\* manifest.json: absent -> minimal manifest; present and unparsable -> error.
LoadManifestFile(root, package_name) ==
  IF HasFile(root, MANIFEST_JSON)
    THEN (IF GetFile(root, MANIFEST_JSON).typed
            THEN Ok(PackageManifest(Unwrap(GetFile(root, MANIFEST_JSON).version),
                                    GetFile(root, MANIFEST_JSON).descr))
            ELSE Err)
    ELSE Ok(PackageManifest(UNKNOWN, Some(PACKAGE_PREFIX \o package_name)))

\* install.json: absent -> no bucket; present and unparsable -> error.
LoadInstallFile(root) ==
  IF HasFile(root, INSTALL_JSON)
    THEN (IF GetFile(root, INSTALL_JSON).typed
            THEN Ok(InstallManifest(GetFile(root, INSTALL_JSON).bucket))
            ELSE Err)
    ELSE Ok(InstallManifest(None))

load_manifests_with_fallback(root, package_name) ==
  IF ~LoadManifestFile(root, package_name).ok THEN Err
  ELSE IF ~LoadInstallFile(root).ok THEN Err
  ELSE Ok(<<LoadManifestFile(root, package_name).val, LoadInstallFile(root).val>>)

\* The .json files of the install root whose content gives a non-empty version.
GivesVersion(f) ==
  f.isJson /\ f.ok /\ IsSome(f.version) /\ Unwrap(f.version) # <<>>

\* Variant of the version recovery that reads the JSON files only.
extract_version_from_directory_FilesOnly(root) ==
  IF Filter(root.files, GivesVersion) # <<>>
    THEN Some(Unwrap(Filter(root.files, GivesVersion)[1].version))
  ELSE None

extract_version_from_directory(root) ==
  IF is_valid_version_string(root.name) THEN Some(root.name)
  ELSE IF Filter(root.files, GivesVersion) # <<>>
    THEN Some(Unwrap(Filter(root.files, GivesVersion)[1].version))
  ELSE None

\* Variant of the loader without the second chance: the error of
\* load_manifests_with_fallback is passed on.
load_package_info_NoFallback(root, package_name) ==
  load_manifests_with_fallback(root, package_name)

\* Variant of the second chance that keeps the bucket of an install.json that
\* parses.
load_package_info_KeepBucket(root, package_name) ==
  IF load_manifests_with_fallback(root, package_name).ok
    THEN load_manifests_with_fallback(root, package_name)
    ELSE Ok(<<PackageManifest(
                IF IsSome(extract_version_from_directory(root))
                  THEN Unwrap(extract_version_from_directory(root))
                  ELSE UNKNOWN,
                Some(PACKAGE_PREFIX \o package_name \o CUSTOM_SUFFIX)),
              IF LoadInstallFile(root).ok THEN LoadInstallFile(root).val
              ELSE InstallManifest(None)>>)

load_package_info(root, package_name) ==
  IF load_manifests_with_fallback(root, package_name).ok
    THEN load_manifests_with_fallback(root, package_name)
    ELSE Ok(<<PackageManifest(
                IF IsSome(extract_version_from_directory(root))
                  THEN Unwrap(extract_version_from_directory(root))
                  ELSE UNKNOWN,
                Some(PACKAGE_PREFIX \o package_name \o CUSTOM_SUFFIX)),
              InstallManifest(None)>>)

\* The first bucket directory, in enumeration order, holding {package}.json.
find_package_bucket(buckets, package_name) ==
  LET hits == Filter(buckets, LAMBDA b : b.isDir /\ package_name \in b.manifests)
  IN  IF hits = <<>> THEN None ELSE Some(hits[1].name)

\* Variant of the bucket determination that searches the buckets first.
determine_bucket_SearchFirst(install_manifest, buckets, package_name) ==
  IF IsSome(find_package_bucket(buckets, package_name))
    THEN Unwrap(find_package_bucket(buckets, package_name))
  ELSE IF IsSome(install_manifest.bucket) THEN Unwrap(install_manifest.bucket)
  ELSE CUSTOM

determine_bucket(install_manifest, buckets, package_name) ==
  IF IsSome(install_manifest.bucket) THEN Unwrap(install_manifest.bucket)
  ELSE IF IsSome(find_package_bucket(buckets, package_name))
    THEN Unwrap(find_package_bucket(buckets, package_name))
  ELSE CUSTOM

\* The modification time of the install root itself; its RFC 3339 text is a
\* function of this instant alone.
get_install_time(root) == root.mtime

\* Variant of the record builder that flags whatever the source is.
build_scoop_package_AlwaysFlag(package_name, manifest, bucket, updated_time, has_version_dirs) ==
  [name |-> package_name,
   version |-> manifest.version,
   source |-> bucket,
   updated |-> updated_time,
   info |-> IF IsSome(manifest.description) THEN Unwrap(manifest.description) ELSE <<>>,
   is_versioned_install |-> has_version_dirs]

build_scoop_package(package_name, manifest, bucket, updated_time, has_version_dirs) ==
  [name |-> package_name,
   version |-> manifest.version,
   source |-> bucket,
   updated |-> updated_time,
   info |-> IF IsSome(manifest.description) THEN Unwrap(manifest.description) ELSE <<>>,
   is_versioned_install |-> IF bucket = CUSTOM THEN has_version_dirs ELSE FALSE]

\* Variant of the versioned-install test that counts every sub-directory other
\* than `current`, whatever its name.
HasVersionDirs_AnyName(d) ==
  \E i \in 1..Len(d.subs) : d.subs[i].isDir /\ d.subs[i].name # CURRENT

\* Whether the package directory has a sub-directory, other than `current`,
\* whose name reads as a version.
HasVersionDirs(d) ==
  \E i \in 1..Len(d.subs) :
    /\ d.subs[i].isDir
    /\ d.subs[i].name # CURRENT
    /\ is_valid_version_string(d.subs[i].name)

load_package_details(d, buckets) ==
  IF ~extract_package_name(d).ok THEN Err
  ELSE IF ~locate_install_dir(d).ok THEN Err
  ELSE IF ~load_package_info(locate_install_dir(d).val, d.name).ok THEN Err
  ELSE LET root == locate_install_dir(d).val
           info == load_package_info(root, d.name).val
       IN  Ok(build_scoop_package(d.name, info[1],
                                  determine_bucket(info[2], buckets, d.name),
                                  get_install_time(root), HasVersionDirs(d)))

\* Variant of the version listing that keeps only directories with a descriptor.
VersionDirNames_Candidates(d) ==
  LET dirs == Filter(d.subs, LAMBDA e :
                 e.isDir /\ e.name # CURRENT /\ is_valid_version_string(e.name)
                 /\ (HasFile(e, INSTALL_JSON) \/ HasFile(e, MANIFEST_JSON)))
  IN  [i \in 1..Len(dirs) |-> dirs[i].name]

\* The names update_package_versions_cache lists for one package directory.
VersionDirNames(d) ==
  LET dirs == Filter(d.subs, LAMBDA e :
                 e.isDir /\ e.name # CURRENT /\ is_valid_version_string(e.name))
  IN  [i \in 1..Len(dirs) |-> dirs[i].name]

(***************************************************************************)
(* The trees the scans run on                                              *)
(***************************************************************************)

NameA == <<"a">>
NameB == <<"B">>
NameC == <<"c">>
NameX == <<"x">>
V10 == <<"1", ".", "0">>
V11 == <<"1", ".", "1">>
V100 == <<"1", ".", "0", ".", "0">>
V110 == <<"1", ".", "1", ".", "0">>
MAIN == <<"m", "a", "i", "n">>

ManifestFile(version, mtime) ==
  File(MANIFEST_JSON, TRUE, TRUE, TRUE, Some(version), None, Some(<<"d">>), mtime)

InstallFile(bucket, mtime) ==
  File(INSTALL_JSON, TRUE, TRUE, TRUE, None, bucket, None, mtime)

\* a: a bucket install with `current`, version 1.0.
DirA1 ==
  PkgDir(NameA, TRUE, TRUE, 1,
         <<Entry(CURRENT, TRUE, 1, <<ManifestFile(V10, 1), InstallFile(Some(MAIN), 1)>>)>>)

\* a after an update: version 1.1, later modification time.
DirA2 ==
  PkgDir(NameA, TRUE, TRUE, 2,
         <<Entry(CURRENT, TRUE, 2, <<ManifestFile(V11, 2), InstallFile(Some(MAIN), 2)>>)>>)

\* B: no `current`, version directories 1.0.0 (holding a manifest) and 1.1.0
\* (empty), in no bucket.
DirB1 ==
  PkgDir(NameB, TRUE, TRUE, 1,
         <<Entry(V100, TRUE, 1, <<ManifestFile(V100, 1)>>), Entry(V110, TRUE, 1, <<>>)>>)

\* c: no `current`, version directories 1.0.0 and 1.1.0 with no descriptor.
DirC0 ==
  PkgDir(NameC, TRUE, TRUE, 3, <<Entry(V100, TRUE, 3, <<>>), Entry(V110, TRUE, 3, <<>>)>>)

\* A plain file lying in apps/.
FileX == PkgDir(NameX, TRUE, FALSE, 1, <<>>)

MainBucket == Bucket(MAIN, TRUE, {NameA})

Worlds ==
  << World(<<DirA1, DirB1>>, <<MainBucket>>),
     World(<<DirC0, DirA1, FileX, DirB1>>, <<MainBucket>>),
     World(<<DirA2, DirB1>>, <<MainBucket>>),
     World(<<DirB1>>, <<MainBucket>>),
     World(<<DirA2>>, <<>>) >>

(***************************************************************************)
(* Bounds                                                                  *)
(***************************************************************************)

\* The trees 1..NWorlds are the ones the first root can hold.
NWorlds == 3
\* Changes of the environment (tree, apps directory, resolved root) in a run.
MaxEnv == 2
\* Commands issued in a run.
MaxOps == 2
\* Concurrent callers.
NProc == 2
\* Milliseconds the clock advances in one step.
TickMs == 500

\* The debounce cooldown of AppState::should_debounce_refresh.
DEBOUNCE_MS == 1000

Procs == 1..NProc
Paths == {"p1", "p2"}
AppsStates == {"dir", "missing", "unreadable"}

(***************************************************************************)
(* State                                                                   *)
(***************************************************************************)

VARIABLES
  scoop_path,          \* AppState.scoop_path
  installed_packages,  \* AppState.installed_packages: Option<InstalledPackagesCache>
  package_versions,    \* AppState.package_versions: Option<PackageVersionsCache>
  last_refresh,        \* time since update_refresh_time, None before the first
  pkgLock,             \* holder of the installed_packages mutex, 0 when free
  tree,                \* the tree under the first root (index in Worlds)
  appsState,           \* per root: the state of its apps directory
  resolved,            \* what resolve_scoop_root returns now: a root or "err"
  loc,                 \* per caller: the command in flight and its locals
  prev,                \* the last scan_installed that ran undisturbed, if any
  dirty,               \* something else happened since the scan in flight began
  sinceDone,           \* time since the previous refresh returned, None before
  prevRef,             \* the previous refresh: time since issued, result, walk,
                       \* and whether it and the time since ran undisturbed
  envChanges,
  opsStarted,
  probe,               \* a resolver or fingerprint computation on a given tree
  store,               \* the settings store: the keys the scheduler reads
  wall_clock,          \* SystemTime::now(), seconds since the epoch
  scheduler,           \* the scheduler loop: running or asleep, and for how long
  tasks                \* the bucket-update tasks spawned so far

vars ==
  <<scoop_path, installed_packages, package_versions, last_refresh, pkgLock,
    tree, appsState, resolved, loc, prev, dirty, sinceDone, prevRef,
    envChanges, opsStarted, probe, store, wall_clock, scheduler, tasks>>

schedVars == <<store, wall_clock, scheduler, tasks>>

envVars == <<tree, appsState, resolved, envChanges>>
cacheVars == <<installed_packages, package_versions>>
ghostVars == <<prev, dirty, sinceDone, prevRef>>

WorldAt(path) == IF path = "p1" THEN Worlds[tree] ELSE Worlds[Len(Worlds)]

NoRes == [kind |-> "none", val |-> <<>>]
ResOk(v) == [kind |-> "ok", val |-> v]
ResErr == [kind |-> "err", val |-> <<>>]

\* No computation is being followed.
NoProbe == [kind |-> "none"]

\* The wall clock when the application starts.
Epoch == 600

\* The scheduler before its first iteration, with a store that has none of
\* its keys.
SchedQuiet ==
  /\ store = [interval |-> None, last_ts |-> None, packages |-> FALSE, edits |-> 0]
  /\ wall_clock = Epoch
  /\ scheduler = [pc |-> "run", left |-> 0]
  /\ tasks = <<>>

Idle ==
  [op |-> "none", pc |-> "idle", warm |-> FALSE, apps |-> "none", scoop |-> "none",
   newp |-> "none", found |-> FALSE, dirs |-> <<>>, fp |-> <<>>, pkgs |-> <<>>,
   res |-> NoRes, hit |-> FALSE, walked |-> FALSE, wrote |-> FALSE,
   recs |-> <<>>, arrived |-> None, near |-> FALSE, had |-> None, saw |-> None,
   fell |-> FALSE, twin |-> None, age |-> 0, arg |-> <<>>, stale |-> FALSE]

Init ==
  /\ scoop_path = "p1"
  /\ installed_packages = None
  /\ package_versions = None
  /\ last_refresh = None
  /\ pkgLock = 0
  /\ tree = 1
  /\ appsState \in {f \in [Paths -> {"dir", "missing"}] : f["p1"] = "dir"}
  /\ resolved = "p1"
  /\ loc = [p \in Procs |-> Idle]
  /\ prev = None
  /\ dirty = FALSE
  /\ sinceDone = None
  /\ prevRef = None
  /\ envChanges = 0
  /\ opsStarted = 0
  /\ probe = NoProbe
  /\ SchedQuiet

(***************************************************************************)
(* Reads of the tree at the moment of a step                               *)
(***************************************************************************)

\* apps_path.is_dir()
AppsIsDir(path) == appsState[path] # "missing"

\* fs::read_dir(&apps_path), kept to the directories: Err when it cannot be read.
ReadAppDirs(path) ==
  IF appsState[path] = "dir"
    THEN Ok(Filter(WorldAt(path).apps, LAMBDA d : d.isDir))
    ELSE Err

\* The entry apps/{name} of a root, if there is one.
AppLookup(path, name) ==
  IF appsState[path] = "missing" THEN None
  ELSE LET hits == Filter(WorldAt(path).apps, LAMBDA d : d.name = name)
       IN  IF hits = <<>> THEN None ELSE Some(hits[1])

\* load_package_details, for every package directory and every buckets
\* directory of the trees.
PackageDetails ==
  [d \in UNION {Range(Worlds[w].apps) : w \in DOMAIN Worlds},
   b \in {Worlds[w].buckets : w \in DOMAIN Worlds} |-> load_package_details(d, b)]

\* load_package_details on the path apps/{name}: a path that is gone has no
\* `current` and no version directory.
LoadOne(name, appsRoot, scoopRoot) ==
  IF IsSome(AppLookup(appsRoot, name))
    THEN PackageDetails[Unwrap(AppLookup(appsRoot, name)), WorldAt(scoopRoot).buckets]
    ELSE Err

\* The load giving up at the first directory that fails.
RECURSIVE LoadFrom_Abort(_, _, _, _)
LoadFrom_Abort(dirs, i, appsRoot, scoopRoot) ==
  IF i > Len(dirs) THEN <<>>
  ELSE IF LoadOne(dirs[i], appsRoot, scoopRoot).ok
    THEN <<LoadOne(dirs[i], appsRoot, scoopRoot).val>>
           \o LoadFrom_Abort(dirs, i + 1, appsRoot, scoopRoot)
    ELSE <<>>

\* app_dirs.par_iter().filter_map(..).collect(): the successes, in order.
RECURSIVE LoadFrom(_, _, _, _)
LoadFrom(dirs, i, appsRoot, scoopRoot) ==
  IF i > Len(dirs) THEN <<>>
  ELSE (IF LoadOne(dirs[i], appsRoot, scoopRoot).ok
          THEN <<LoadOne(dirs[i], appsRoot, scoopRoot).val>>
          ELSE <<>>)
       \o LoadFrom(dirs, i + 1, appsRoot, scoopRoot)

LoadAll(dirs, appsRoot, scoopRoot) == LoadFrom(dirs, 1, appsRoot, scoopRoot)

InstalledPackagesCache(packages, fingerprint) ==
  [packages |-> packages, fingerprint |-> fingerprint]

PackageVersionsCache(fingerprint, versions_map) ==
  [fingerprint |-> fingerprint, versions_map |-> versions_map]

\* Variant of the map with a key for every package of the list, flagged or
\* not, whatever was listed for it.
VersionsMap_EveryPackage(packages, scoopRoot) ==
  [n \in {packages[i].name : i \in 1..Len(packages)} |->
     IF IsSome(AppLookup(scoopRoot, n))
       THEN VersionDirNames(Unwrap(AppLookup(scoopRoot, n)))
       ELSE <<>>]

\* The versions_map update_package_versions_cache builds under a root.
VersionsMap(packages, scoopRoot) ==
  LET listed == {i \in 1..Len(packages) :
                   /\ packages[i].is_versioned_install
                   /\ IsSome(AppLookup(scoopRoot, packages[i].name))
                   /\ VersionDirNames(Unwrap(AppLookup(scoopRoot, packages[i].name))) # <<>>}
  IN  [n \in {packages[i].name : i \in listed} |->
         VersionDirNames(Unwrap(AppLookup(scoopRoot, n)))]

(***************************************************************************)
(* AppState (state.rs)                                                     *)
(***************************************************************************)

should_debounce_refresh ==
  IsSome(last_refresh) /\ Unwrap(last_refresh) < DEBOUNCE_MS

\* The value update_refresh_time leaves in last_refresh.
update_refresh_time == Some(0)

(***************************************************************************)
(* Bookkeeping shared by the actions                                       *)
(***************************************************************************)

InFlight(p) == loc[p].pc # "idle"
AllIdle == \A p \in Procs : ~InFlight(p)

\* The previous refresh, no longer the last thing that happened.
Spoil(o) == IF IsSome(o) THEN Some([Unwrap(o) EXCEPT !.clean = FALSE]) ELSE None

Disturb == prev' = None /\ dirty' = TRUE /\ prevRef' = Spoil(prevRef)

CanStart(p) ==
  /\ loc[p].pc = "idle"
  /\ opsStarted < MaxOps
  /\ opsStarted' = opsStarted + 1
  /\ UNCHANGED <<probe, schedVars>>

Finish(p, result) == [loc[p] EXCEPT !.pc = "done", !.res = result]

(***************************************************************************)
(* Commands: the step that issues each                                     *)
(***************************************************************************)

\* The scan entry point also setting the debounce clock.
get_installed_packages_full_Clock(p) ==
  /\ CanStart(p)
  /\ loc' = [loc EXCEPT ![p] = [Idle EXCEPT !.op = "scan", !.pc = "ensure"]]
  /\ last_refresh' = update_refresh_time
  /\ IF \A q \in Procs \ {p} : ~InFlight(q)
       THEN prev' = prev /\ dirty' = FALSE /\ prevRef' = Spoil(prevRef)
       ELSE Disturb
  /\ UNCHANGED <<scoop_path, cacheVars, pkgLock, envVars, sinceDone>>

\* get_installed_packages_full is called: the scan starts.
get_installed_packages_full(p) ==
  /\ CanStart(p)
  /\ loc' = [loc EXCEPT ![p] = [Idle EXCEPT !.op = "scan", !.pc = "ensure"]]
  /\ IF \A q \in Procs \ {p} : ~InFlight(q)
       THEN prev' = prev /\ dirty' = FALSE /\ prevRef' = Spoil(prevRef)
       ELSE Disturb
  /\ UNCHANGED <<scoop_path, cacheVars, last_refresh, pkgLock, envVars,
                 sinceDone>>

\* The warm-up scan of the cold start: the same scan with is_warmup = true.
warm_up(p) ==
  /\ CanStart(p)
  /\ loc' = [loc EXCEPT ![p] =
               [Idle EXCEPT !.op = "warmup", !.pc = "ensure", !.warm = TRUE]]
  /\ Disturb
  /\ UNCHANGED <<scoop_path, cacheVars, last_refresh, pkgLock, envVars,
                 sinceDone>>

\* The fingerprint a cache holds, if it holds one.
CacheFp(cache) == IF IsSome(cache) THEN Some(Unwrap(cache).fingerprint) ELSE None

\* What a refresh that arrives now notes of the one before it.
Arrival ==
  [Idle EXCEPT
     !.op = "refresh",
     !.arrived = last_refresh,
     !.had = CacheFp(installed_packages),
     !.near = /\ IsSome(sinceDone)
              /\ Unwrap(sinceDone) < DEBOUNCE_MS
              /\ IsSome(installed_packages),
     !.twin = IF IsSome(prevRef) /\ Unwrap(prevRef).since < DEBOUNCE_MS
                THEN Some([res |-> Unwrap(prevRef).res,
                           walked |-> Unwrap(prevRef).walked,
                           clean |-> Unwrap(prevRef).clean])
                ELSE None]

\* refresh_installed_packages is called: the debounce test, and on a refresh
\* that is not debounced the clock is set before anything else is done.
refresh_installed_packages(p) ==
  /\ CanStart(p)
  /\ IF should_debounce_refresh
       THEN /\ loc' = [loc EXCEPT ![p] = [Arrival EXCEPT !.pc = "r_deb"]]
            /\ UNCHANGED last_refresh
       ELSE /\ loc' = [loc EXCEPT ![p] = [Arrival EXCEPT !.pc = "inv1"]]
            /\ last_refresh' = update_refresh_time
  /\ prev' = None
  /\ dirty' = (\E q \in Procs \ {p} : InFlight(q))
  /\ UNCHANGED <<scoop_path, cacheVars, pkgLock, envVars, sinceDone, prevRef>>

\* invalidate_installed_cache is called by an install, uninstall or update.
invalidate_installed_cache(p) ==
  /\ CanStart(p)
  /\ loc' = [loc EXCEPT ![p] = [Idle EXCEPT !.op = "invalidate", !.pc = "inv1"]]
  /\ Disturb
  /\ UNCHANGED <<scoop_path, cacheVars, last_refresh, pkgLock, envVars,
                 sinceDone>>

\* Variant of the existence test that asks for a directory.
PackagePathExists_IsDir(name) ==
  /\ IsSome(AppLookup(scoop_path, name))
  /\ Unwrap(AppLookup(scoop_path, name)).isDir

\* package_path.exists() under the current root.
PackagePathExists(name) == IsSome(AppLookup(scoop_path, name))

get_package_path(p, name) ==
  /\ CanStart(p)
  /\ loc' = [loc EXCEPT ![p] =
               [Idle EXCEPT !.op = "getpath", !.pc = "done", !.arg = name,
                            !.res = IF PackagePathExists(name)
                                      THEN ResOk(<<scoop_path, name>>)
                                      ELSE ResErr]]
  /\ Disturb
  /\ UNCHANGED <<scoop_path, cacheVars, last_refresh, pkgLock, envVars,
                 sinceDone>>

\* set_scoop_path: the store and the in-memory root are set, no cache is
\* touched.  The resolver reads the store, so it follows.
set_scoop_path(p, path) ==
  /\ CanStart(p)
  /\ scoop_path' = path
  /\ resolved' = path
  /\ loc' = [loc EXCEPT ![p] =
               [Idle EXCEPT !.op = "setpath", !.pc = "done", !.res = ResOk(<<>>),
                            !.newp = path, !.scoop = scoop_path]]
  /\ Disturb
  /\ UNCHANGED <<cacheVars, last_refresh, pkgLock, tree, appsState, envChanges,
                 sinceDone>>

(***************************************************************************)
(* refresh_installed_packages and invalidate_installed_cache, step by step *)
(***************************************************************************)

\* The debounced branch returning an empty list instead of the cached one.
DebouncedResult_Empty(cache) == ResOk(<<>>)

\* What the debounced branch returns from the cache it finds.
DebouncedResult(cache) == ResOk(cache.packages)

\* The debounced branch rescanning whatever the cache holds.
RefreshDebounced_Rescan(p) ==
  /\ loc[p].pc = "r_deb"
  /\ pkgLock = 0
  /\ loc' = [loc EXCEPT ![p].pc = "inv1", ![p].fell = TRUE]
  /\ last_refresh' = update_refresh_time
  /\ UNCHANGED <<scoop_path, cacheVars, pkgLock, envVars, ghostVars, opsStarted>>
  /\ UNCHANGED <<probe, schedVars>>

\* The debounced branch falling through on an empty cache without setting the
\* clock.
RefreshDebounced_NoClock(p) ==
  /\ loc[p].pc = "r_deb"
  /\ pkgLock = 0
  /\ IF IsSome(installed_packages)
       THEN loc' = [loc EXCEPT ![p] =
                      [Finish(p, DebouncedResult(Unwrap(installed_packages)))
                         EXCEPT !.saw = Some(Unwrap(installed_packages).packages)]]
       ELSE loc' = [loc EXCEPT ![p].pc = "inv1", ![p].fell = TRUE]
  /\ UNCHANGED <<scoop_path, cacheVars, last_refresh, pkgLock, envVars, ghostVars,
                 opsStarted>>
  /\ UNCHANGED <<probe, schedVars>>

\* The debounced branch, once it holds the lock: the cached list if there is
\* one, otherwise on to the full refresh.
RefreshDebounced(p) ==
  /\ loc[p].pc = "r_deb"
  /\ pkgLock = 0
  /\ IF IsSome(installed_packages)
       THEN /\ loc' = [loc EXCEPT ![p] =
                         [Finish(p, DebouncedResult(Unwrap(installed_packages)))
                            EXCEPT !.saw = Some(Unwrap(installed_packages).packages)]]
            /\ UNCHANGED last_refresh
       ELSE /\ loc' = [loc EXCEPT ![p].pc = "inv1", ![p].fell = TRUE]
            /\ last_refresh' = update_refresh_time
  /\ UNCHANGED <<scoop_path, cacheVars, pkgLock, envVars, ghostVars, opsStarted>>
  /\ UNCHANGED <<probe, schedVars>>

\* invalidate_installed_cache leaving the package list in place.
Invalidate1_Keep(p) ==
  /\ loc[p].pc = "inv1"
  /\ pkgLock = 0
  /\ pkgLock' = p
  /\ loc' = [loc EXCEPT ![p].pc = "inv2"]
  /\ UNCHANGED <<scoop_path, cacheVars, last_refresh, envVars, ghostVars,
                 opsStarted>>
  /\ UNCHANGED <<probe, schedVars>>

\* invalidate_installed_cache, first lock: the package list is emptied and the
\* guard is kept.
Invalidate1(p) ==
  /\ loc[p].pc = "inv1"
  /\ pkgLock = 0
  /\ installed_packages' = None
  /\ pkgLock' = p
  /\ loc' = [loc EXCEPT ![p].pc = "inv2", ![p].wrote = TRUE]
  /\ UNCHANGED <<scoop_path, package_versions, last_refresh, envVars, ghostVars,
                 opsStarted>>
  /\ UNCHANGED <<probe, schedVars>>

\* A scan that has listed the apps directory and not yet returned holds a
\* fingerprint, and past its check a list, read before the invalidate_cache
\* that now returns.
Overtaken(q) ==
  IF loc[q].pc \in {"check", "update", "versions"}
    THEN [loc[q] EXCEPT !.stale = TRUE]
    ELSE loc[q]

\* Variant of the second lock that asks again for the package-list lock while
\* its own guard is held.
Invalidate2_Relock(p) ==
  /\ loc[p].pc = "inv2"
  /\ pkgLock = 0
  /\ package_versions' = None
  /\ pkgLock' = 0
  /\ loc' = [q \in Procs |->
               IF q = p
                 THEN (IF loc[p].op = "refresh"
                         THEN [loc[p] EXCEPT !.pc = "ensure"]
                         ELSE Finish(p, ResOk(<<>>)))
                 ELSE IF loc[p].op = "invalidate" THEN Overtaken(q)
                 ELSE loc[q]]
  /\ UNCHANGED <<scoop_path, installed_packages, last_refresh, envVars, ghostVars,
                 opsStarted>>
  /\ UNCHANGED <<probe, schedVars>>

\* invalidate_installed_cache, second lock: the version lists are emptied and
\* both guards are dropped; a refresh goes on to its scan.
Invalidate2(p) ==
  /\ loc[p].pc = "inv2"
  /\ pkgLock = p
  /\ package_versions' = None
  /\ pkgLock' = 0
  /\ loc' = [q \in Procs |->
               IF q = p
                 THEN (IF loc[p].op = "refresh"
                         THEN [loc[p] EXCEPT !.pc = "ensure"]
                         ELSE Finish(p, ResOk(<<>>)))
                 ELSE IF loc[p].op = "invalidate" THEN Overtaken(q)
                 ELSE loc[q]]
  /\ UNCHANGED <<scoop_path, installed_packages, last_refresh, envVars, ghostVars,
                 opsStarted>>
  /\ UNCHANGED <<probe, schedVars>>

(***************************************************************************)
(* scan_installed_packages_internal, step by step                          *)
(***************************************************************************)

\* A missing apps directory reported as an error.
NotFoundResult_Err == ResErr

\* What the scan returns when ensure_apps_path finds no apps directory.
NotFoundResult == ResOk(<<>>)

\* ensure_apps_path up to the lock of refresh_scoop_path_if_needed: the apps
\* directory of the current root, or else the root re-resolved.  A new root is
\* stored at once; the cache is emptied once the lock is held.
ScanEnsure(p) ==
  /\ loc[p].pc = "ensure"
  /\ IF AppsIsDir(scoop_path)
       THEN /\ loc' = [loc EXCEPT ![p].apps = scoop_path, ![p].found = TRUE,
                                  ![p].pc = "list"]
            /\ UNCHANGED scoop_path
       ELSE IF resolved # "err" /\ resolved # scoop_path
         THEN /\ scoop_path' = resolved
              /\ loc' = [loc EXCEPT ![p].newp = resolved, ![p].pc = "pathclear"]
         ELSE /\ loc' = [loc EXCEPT ![p] = Finish(p, NotFoundResult)]
              /\ UNCHANGED scoop_path
  /\ UNCHANGED <<cacheVars, last_refresh, pkgLock, envVars, ghostVars, opsStarted>>
  /\ UNCHANGED <<probe, schedVars>>

\* What refresh_scoop_path_if_needed leaves in the two caches on a new root.
PathChangeClear == <<None, package_versions>>

\* refresh_scoop_path_if_needed from its lock on, and the rest of
\* ensure_apps_path: the apps directory of the new root, if it is one.
ScanPathClear(p) ==
  /\ loc[p].pc = "pathclear"
  /\ pkgLock = 0
  /\ installed_packages' = PathChangeClear[1]
  /\ package_versions' = PathChangeClear[2]
  /\ IF AppsIsDir(loc[p].newp)
       THEN loc' = [loc EXCEPT ![p].apps = loc[p].newp, ![p].found = TRUE,
                               ![p].wrote = TRUE, ![p].pc = "list"]
       ELSE loc' = [loc EXCEPT ![p] = [Finish(p, NotFoundResult) EXCEPT !.wrote = TRUE]]
  /\ UNCHANGED <<scoop_path, last_refresh, pkgLock, envVars, ghostVars, opsStarted>>
  /\ UNCHANGED <<probe, schedVars>>

\* compute_apps_fingerprint, for every listing of directories the trees give.
AppsFingerprint ==
  [app_dirs \in {Filter(Worlds[w].apps, LAMBDA d : d.isDir) : w \in DOMAIN Worlds} |->
     compute_apps_fingerprint(app_dirs)]

\* Variant of the listing that empties the package-list cache when the apps
\* directory cannot be read.
ScanList_ClearOnError(p) ==
  /\ loc[p].pc = "list"
  /\ IF ReadAppDirs(loc[p].apps).ok
       THEN LET app_dirs == ReadAppDirs(loc[p].apps).val
            IN  /\ loc' = [loc EXCEPT
                             ![p].dirs = [i \in 1..Len(app_dirs) |-> app_dirs[i].name],
                             ![p].fp = AppsFingerprint[app_dirs],
                             ![p].scoop = scoop_path,
                             ![p].pc = "check"]
                /\ UNCHANGED installed_packages
       ELSE /\ loc' = [loc EXCEPT ![p] = [Finish(p, ResErr) EXCEPT !.wrote = TRUE]]
            /\ installed_packages' = None
  /\ UNCHANGED <<scoop_path, package_versions, last_refresh, pkgLock, envVars,
                 ghostVars, opsStarted>>
  /\ UNCHANGED <<probe, schedVars>>

\* fs::read_dir of the apps directory, the fingerprint of its directories and
\* the root the packages will be loaded under.
ScanList(p) ==
  /\ loc[p].pc = "list"
  /\ IF ReadAppDirs(loc[p].apps).ok
       THEN LET app_dirs == ReadAppDirs(loc[p].apps).val
            IN  loc' = [loc EXCEPT
                          ![p].dirs = [i \in 1..Len(app_dirs) |-> app_dirs[i].name],
                          ![p].fp = AppsFingerprint[app_dirs],
                          ![p].scoop = scoop_path,
                          ![p].pc = "check"]
       ELSE loc' = [loc EXCEPT ![p] = Finish(p, ResErr)]
  /\ UNCHANGED <<scoop_path, cacheVars, last_refresh, pkgLock, envVars, ghostVars,
                 opsStarted>>
  /\ UNCHANGED <<probe, schedVars>>

\* check_cache comparing the fingerprints the wrong way round.
check_cache_Inverted(fingerprint) ==
  IF IsSome(installed_packages)
     /\ Unwrap(installed_packages).fingerprint # fingerprint
    THEN Some(Unwrap(installed_packages).packages)
    ELSE None

\* check_cache: the cached list when the cache holds this fingerprint.
check_cache(fingerprint) ==
  IF IsSome(installed_packages)
     /\ Unwrap(installed_packages).fingerprint = fingerprint
    THEN Some(Unwrap(installed_packages).packages)
    ELSE None

\* Variant of the check that never takes the cached list.
ScanCheck_NoCache(p) ==
  /\ loc[p].pc = "check"
  /\ pkgLock = 0
  /\ loc' = [loc EXCEPT
               ![p].pkgs = LoadAll(loc[p].dirs, loc[p].apps, loc[p].scoop),
               ![p].recs = [i \in 1..Len(loc[p].dirs) |->
                              LoadOne(loc[p].dirs[i], loc[p].apps, loc[p].scoop)],
               ![p].walked = TRUE,
               ![p].pc = "update"]
  /\ UNCHANGED <<scoop_path, cacheVars, last_refresh, pkgLock, envVars, ghostVars,
                 opsStarted>>
  /\ UNCHANGED <<probe, schedVars>>

\* check_cache under the lock; on a miss, the parallel load of every directory.
ScanCheck(p) ==
  /\ loc[p].pc = "check"
  /\ pkgLock = 0
  /\ IF IsSome(check_cache(loc[p].fp))
       THEN loc' = [loc EXCEPT ![p] =
                      [Finish(p, ResOk(Unwrap(check_cache(loc[p].fp))))
                         EXCEPT !.hit = TRUE]]
       ELSE loc' = [loc EXCEPT
                      ![p].pkgs = LoadAll(loc[p].dirs, loc[p].apps, loc[p].scoop),
                      ![p].recs = [i \in 1..Len(loc[p].dirs) |->
                                     LoadOne(loc[p].dirs[i], loc[p].apps, loc[p].scoop)],
                      ![p].walked = TRUE,
                      ![p].pc = "update"]
  /\ UNCHANGED <<scoop_path, cacheVars, last_refresh, pkgLock, envVars, ghostVars,
                 opsStarted>>
  /\ UNCHANGED <<probe, schedVars>>

\* Variant of update_cache that leaves the package-list cache as it is.
ScanUpdate_KeepOld(p) ==
  /\ loc[p].pc = "update"
  /\ pkgLock = 0
  /\ loc' = [loc EXCEPT ![p].wrote = TRUE, ![p].pc = "versions"]
  /\ UNCHANGED <<scoop_path, cacheVars, last_refresh, pkgLock, envVars,
                 ghostVars, opsStarted>>
  /\ UNCHANGED <<probe, schedVars>>

\* update_cache: the whole package-list cache is replaced under the lock.
ScanUpdate(p) ==
  /\ loc[p].pc = "update"
  /\ pkgLock = 0
  /\ installed_packages' = Some(InstalledPackagesCache(loc[p].pkgs, loc[p].fp))
  /\ loc' = [loc EXCEPT ![p].wrote = TRUE, ![p].pc = "versions"]
  /\ UNCHANGED <<scoop_path, package_versions, last_refresh, pkgLock, envVars,
                 ghostVars, opsStarted>>
  /\ UNCHANGED <<probe, schedVars>>

\* update_package_versions_cache, then the scan returns its list.
ScanVersions(p) ==
  /\ loc[p].pc = "versions"
  /\ package_versions' =
       Some(PackageVersionsCache(loc[p].fp, VersionsMap(loc[p].pkgs, scoop_path)))
  /\ loc' = [loc EXCEPT ![p] = Finish(p, ResOk(loc[p].pkgs))]
  /\ UNCHANGED <<scoop_path, installed_packages, last_refresh, pkgLock, envVars,
                 ghostVars, opsStarted>>
  /\ UNCHANGED <<probe, schedVars>>

\* The caller receives the result.
Return(p) ==
  /\ loc[p].pc = "done"
  /\ loc' = [loc EXCEPT ![p] = Idle]
  /\ prev' = IF loc[p].op = "scan"
               THEN (IF dirty THEN None
                     ELSE Some([res |-> loc[p].res, fp |-> loc[p].fp,
                                listed |-> loc[p].hit \/ loc[p].walked]))
               ELSE prev
  /\ sinceDone' = IF loc[p].op = "refresh" THEN Some(0) ELSE sinceDone
  /\ prevRef' = IF loc[p].op = "refresh"
                  THEN Some([since |-> loc[p].age, res |-> loc[p].res,
                             walked |-> loc[p].walked,
                             clean |-> ~dirty /\ loc[p].saw = None])
                  ELSE prevRef
  /\ UNCHANGED <<scoop_path, cacheVars, last_refresh, pkgLock, envVars, dirty,
                 opsStarted>>
  /\ UNCHANGED <<probe, schedVars>>

(***************************************************************************)
(* The environment                                                         *)
(***************************************************************************)

Adv(e) == IF e + TickMs >= DEBOUNCE_MS THEN DEBOUNCE_MS ELSE e + TickMs
AdvOpt(o) == IF IsSome(o) THEN Some(Adv(Unwrap(o))) ELSE None

\* Time passes: every running timer advances, up to the cooldown.
Tick ==
  /\ last_refresh' = AdvOpt(last_refresh)
  /\ sinceDone' = AdvOpt(sinceDone)
  /\ prevRef' = IF IsSome(prevRef)
                  THEN Some([Unwrap(prevRef) EXCEPT !.since = Adv(@)])
                  ELSE None
  /\ loc' = [p \in Procs |->
               IF loc[p].op = "refresh" THEN [loc[p] EXCEPT !.age = Adv(@)]
               ELSE loc[p]]
  /\ <<last_refresh', sinceDone', prevRef', loc'>>
       # <<last_refresh, sinceDone, prevRef, loc>>
  /\ UNCHANGED <<scoop_path, cacheVars, pkgLock, envVars, prev, dirty, opsStarted>>
  /\ UNCHANGED <<probe, schedVars>>

EnvStep ==
  /\ envChanges < MaxEnv
  /\ envChanges' = envChanges + 1
  /\ Disturb
  /\ UNCHANGED <<scoop_path, cacheVars, last_refresh, pkgLock, loc, sinceDone,
                 opsStarted>>
  /\ UNCHANGED <<probe, schedVars>>

\* Packages are installed, removed or updated under the first root.
FsTouch(w) ==
  /\ w # tree
  /\ tree' = w
  /\ EnvStep
  /\ UNCHANGED <<appsState, resolved>>

\* The apps directory of the first root appears, disappears or becomes
\* unreadable; that of the second root is as the run found it.
FsApps(st) ==
  /\ st # appsState["p1"]
  /\ appsState' = [appsState EXCEPT !["p1"] = st]
  /\ EnvStep
  /\ UNCHANGED <<tree, resolved>>

\* What resolve_scoop_root would return changes.
EnvResolve(r) ==
  /\ r # resolved
  /\ resolved' = r
  /\ EnvStep
  /\ UNCHANGED <<tree, appsState>>

(***************************************************************************)
(* Specifications                                                          *)
(***************************************************************************)

Starts(p) ==
  \/ get_installed_packages_full(p)
  \/ warm_up(p)
  \/ refresh_installed_packages(p)
  \/ invalidate_installed_cache(p)
  \/ \E name \in {NameA, NameX} : get_package_path(p, name)
  \/ \E path \in Paths : set_scoop_path(p, path)

Steps(p) ==
  \/ RefreshDebounced(p)
  \/ Invalidate1(p)
  \/ Invalidate2(p)
  \/ ScanEnsure(p)
  \/ ScanPathClear(p)
  \/ ScanList(p)
  \/ ScanCheck(p)
  \/ ScanUpdate(p)
  \/ ScanVersions(p)
  \/ Return(p)

Env ==
  \/ Tick
  \/ \E w \in 1..NWorlds : FsTouch(w)
  \/ \E st \in AppsStates : FsApps(st)
  \/ \E r \in Paths \cup {"err"} : EnvResolve(r)

\* Callers run concurrently.
Next == (\E p \in Procs : Starts(p) \/ Steps(p)) \/ Env

Spec == Init /\ [][Next]_vars

\* One command at a time, all issued by the first caller: a command is issued
\* only when none is in flight.
Caller == CHOOSE p \in Procs : \A q \in Procs : p <= q

SeqNext == (AllIdle /\ Starts(Caller)) \/ Steps(Caller) \/ Env

SeqSpec == Init /\ [][SeqNext]_vars

(***************************************************************************)
(* The resolver and the fingerprint on their own                           *)
(*                                                                         *)
(* One call of the resolver on one package directory, or one call of the   *)
(* fingerprint on one list of package directories followed by a second     *)
(* call after a single change of the tree.  The application state is not   *)
(* touched.                                                                *)
(***************************************************************************)

\* What is shown of a directory name that is not valid Unicode.
NameU == <<"u">>

\* A package directory whose name is not valid Unicode, holding `current`.
DirU ==
  PkgDir(NameU, FALSE, TRUE, 1, <<Entry(CURRENT, TRUE, 1, <<ManifestFile(V10, 1)>>)>>)

EXTRAS == <<"e", "x", "t", "r", "a", "s">>
V2 == <<"2">>
V3 == <<"3">>
LATEST == <<"l", "a", "t", "e", "s", "t">>

\* manifest.json that is not JSON at all.
BrokenManifest == File(MANIFEST_JSON, TRUE, FALSE, FALSE, None, None, None, 1)

\* manifest.json that is JSON with a version, but not a PackageManifest.
UntypedManifest == File(MANIFEST_JSON, TRUE, TRUE, FALSE, Some(V11), None, None, 1)

\* install.json that is not JSON.
BrokenInstall == File(INSTALL_JSON, TRUE, FALSE, FALSE, None, None, None, 1)

\* Any other file of the install root.
OtherFile(name, isJson, ok, version) ==
  File(name, isJson, ok, FALSE, version, None, None, 1)

ManifestChoices ==
  {<<>>, <<ManifestFile(V10, 1)>>, <<BrokenManifest>>, <<UntypedManifest>>}

InstallChoices ==
  {<<>>, <<InstallFile(None, 1)>>, <<InstallFile(Some(MAIN), 1)>>, <<BrokenInstall>>}

\* Files enumerated before manifest.json and install.json.
EarlyChoices ==
  {<<>>, <<OtherFile("a.json", TRUE, TRUE, Some(V2))>>,
   <<OtherFile("a.json", TRUE, FALSE, None), OtherFile("b.json", TRUE, TRUE, Some(<<>>)),
     OtherFile("c.txt", FALSE, TRUE, Some(V2))>>}

\* Files enumerated after them.
LateChoices == {<<>>, <<OtherFile("z.json", TRUE, TRUE, Some(V3))>>}

RootFiles ==
  {e \o m \o i \o l :
     e \in EarlyChoices, m \in ManifestChoices, i \in InstallChoices, l \in LateChoices}

\* The sub-entries of a package directory whose install root, if any, holds f.
DirShapes(f) ==
  {<<Entry(CURRENT, TRUE, 1, f)>>,
   <<Entry(CURRENT, TRUE, 1, f), Entry(V100, TRUE, 1, <<>>)>>,
   <<Entry(V100, TRUE, 1, f)>>,
   <<Entry(V110, TRUE, 1, <<>>), Entry(V100, TRUE, 1, f)>>,
   <<Entry(LATEST, TRUE, 1, f)>>,
   <<Entry(V100, FALSE, 1, <<>>), Entry(LATEST, TRUE, 1, <<>>)>>,
   <<Entry(CURRENT, TRUE, 1, f), Entry(V110, TRUE, 2, <<ManifestFile(V110, 2)>>)>>,
   <<Entry(V100, TRUE, 3, f), Entry(V110, TRUE, 1, <<ManifestFile(V110, 2)>>)>>,
   <<Entry(V110, TRUE, 1, <<ManifestFile(V110, 2)>>), Entry(V100, TRUE, 3, f)>>,
   <<Entry(V100, TRUE, 1, f), Entry(V110, TRUE, 1, <<ManifestFile(V110, 1)>>)>>}

ProbeDirs ==
  {PkgDir(NameA, TRUE, TRUE, 1, subs) : subs \in UNION {DirShapes(f) : f \in RootFiles}}
    \cup {PkgDir(NameU, FALSE, TRUE, 1, subs) : subs \in DirShapes(<<ManifestFile(V10, 1)>>)}

\* The buckets directory, in enumeration order.
ProbeBuckets ==
  {<<>>,
   <<Bucket(MAIN, TRUE, {NameA})>>,
   <<Bucket(EXTRAS, TRUE, {NameA}), Bucket(MAIN, TRUE, {NameA})>>,
   <<Bucket(EXTRAS, FALSE, {}), Bucket(MAIN, TRUE, {NameA, NameB})>>,
   <<Bucket(EXTRAS, TRUE, {NameB})>>}

\* Package directories in a list: at most this many.
MaxDirs == 3

FpPool == {DirA1, DirB1, DirC0, DirU}

RECURSIVE ListsOver(_, _)
\* The lists of at most n distinct members of pool.
ListsOver(pool, n) ==
  IF n = 0 \/ pool = {} THEN {<<>>}
  ELSE {<<>>} \cup UNION {{<<d>> \o l : l \in ListsOver(pool \ {d}, n - 1)} : d \in pool}

ProbeLists == ListsOver(FpPool, MaxDirs)

Quiet ==
  /\ scoop_path = "p1"
  /\ installed_packages = None
  /\ package_versions = None
  /\ last_refresh = None
  /\ pkgLock = 0
  /\ tree = 1
  /\ appsState = [q \in Paths |-> "dir"]
  /\ resolved = "p1"
  /\ loc = [p \in Procs |-> Idle]
  /\ prev = None
  /\ dirty = FALSE
  /\ sinceDone = None
  /\ prevRef = None
  /\ envChanges = 0
  /\ opsStarted = 0

appVars ==
  <<scoop_path, installed_packages, package_versions, last_refresh, pkgLock,
    tree, appsState, resolved, loc, prev, dirty, sinceDone, prevRef,
    envChanges, opsStarted>>

\* Characters of a directory name: a digit, letters, the three separators the
\* recognizer admits and one it does not.
NameChars == {"1", "a", "A", ".", "-", "_", "+"}

\* Directory names: at most this many characters.
MaxLen == 3

ProbeStrings == UNION {[1..n -> NameChars] : n \in 0..MaxLen}

ProbeInit ==
  /\ Quiet
  /\ SchedQuiet
  /\ \/ \E d \in ProbeDirs, b \in ProbeBuckets :
          probe = [kind |-> "dir", dir |-> d, buckets |-> b]
     \/ \E l \in ProbeLists : probe = [kind |-> "list", dirs |-> l]
     \/ \E s \in ProbeStrings : probe = [kind |-> "name", s |-> s]

\* load_package_details on the package directory, and the names
\* update_package_versions_cache lists for it.
Resolve ==
  /\ probe.kind = "dir"
  /\ probe' = [kind |-> "resolved", dir |-> probe.dir, buckets |-> probe.buckets,
               root |-> locate_install_dir(probe.dir),
               rec |-> load_package_details(probe.dir, probe.buckets),
               versions |-> VersionDirNames(probe.dir)]
  /\ UNCHANGED <<appVars, schedVars>>

\* compute_apps_fingerprint on the list.
Fingerprint ==
  /\ probe.kind = "list"
  /\ probe' = [kind |-> "fp", dirs |-> probe.dirs,
               fp |-> compute_apps_fingerprint(probe.dirs)]
  /\ UNCHANGED <<appVars, schedVars>>

\* compute_apps_fingerprint again, after the list became dirs2 by the change.
Again(change, dirs2) ==
  /\ probe.kind = "fp"
  /\ probe' = [kind |-> "fp2", dirs |-> probe.dirs, fp |-> probe.fp,
               change |-> change, dirs2 |-> dirs2,
               fp2 |-> compute_apps_fingerprint(dirs2)]
  /\ UNCHANGED <<appVars, schedVars>>

Names(dirs) == {dirs[i].name : i \in 1..Len(dirs)}

\* A package directory appears in apps/.
AddDir(d) ==
  /\ probe.kind = "fp"
  /\ d.name \notin Names(probe.dirs)
  /\ Again("add", probe.dirs \o <<d>>)

\* A package directory disappears.
RemoveDir(i) ==
  /\ probe.kind = "fp"
  /\ i \in 1..Len(probe.dirs)
  /\ Again("remove", [j \in 1..(Len(probe.dirs) - 1) |->
                        IF j < i THEN probe.dirs[j] ELSE probe.dirs[j + 1]])

\* The modification time of the package directory itself changes.
TouchDir(i) ==
  /\ probe.kind = "fp"
  /\ i \in 1..Len(probe.dirs)
  /\ Again("touch", [probe.dirs EXCEPT ![i].mtime = @ + 1])

\* The file or directory whose time get_install_modification_time reads.
TouchedRoot(e) ==
  LET bump(files, n) == [k \in 1..Len(files) |->
                           IF files[k].name = n THEN [files[k] EXCEPT !.mtime = @ + 1]
                           ELSE files[k]]
  IN  IF HasFile(e, INSTALL_JSON) THEN [e EXCEPT !.files = bump(@, INSTALL_JSON)]
      ELSE IF HasFile(e, MANIFEST_JSON) THEN [e EXCEPT !.files = bump(@, MANIFEST_JSON)]
      ELSE [e EXCEPT !.mtime = @ + 1]

\* The package is reinstalled or updated in place: its install root's
\* descriptor is rewritten.
TouchRoot(i) ==
  /\ probe.kind = "fp"
  /\ i \in 1..Len(probe.dirs)
  /\ locate_install_dir(probe.dirs[i]).ok
  /\ LET d == probe.dirs[i]
         root == locate_install_dir(d).val
     IN  Again("rewrite",
               [probe.dirs EXCEPT ![i].subs =
                  [k \in 1..Len(d.subs) |->
                     IF d.subs[k] = root THEN TouchedRoot(root) ELSE d.subs[k]]])

\* The same directories are enumerated in another order.
Permute(l) ==
  /\ probe.kind = "fp"
  /\ Len(l) = Len(probe.dirs)
  /\ Range(l) = Range(probe.dirs)
  /\ l # probe.dirs
  /\ Again("permute", l)

\* is_valid_version_string on the name.
Recognize ==
  /\ probe.kind = "name"
  /\ probe' = [kind |-> "recognized", s |-> probe.s,
               valid |-> is_valid_version_string(probe.s)]
  /\ UNCHANGED <<appVars, schedVars>>

\* A scan of apps/ holding the one package directory resolved before, after
\* the tree became dir2 and buckets2: the fingerprint check_cache compares and
\* the record a fresh load_package_details gives, before and after.
Rescan(change, dir2, buckets2) ==
  /\ probe.kind = "resolved"
  /\ probe' = [kind |-> "rescanned", change |-> change,
               dir |-> probe.dir, buckets |-> probe.buckets,
               fp |-> compute_apps_fingerprint(<<probe.dir>>), rec |-> probe.rec,
               dir2 |-> dir2, buckets2 |-> buckets2,
               fp2 |-> compute_apps_fingerprint(<<dir2>>),
               rec2 |-> load_package_details(dir2, buckets2)]
  /\ UNCHANGED <<appVars, schedVars>>

\* manifest.json of the install root rewritten with another version, at a
\* later time.
EditedManifest(e) ==
  [e EXCEPT !.files =
     [k \in 1..Len(e.files) |->
        IF e.files[k].name = MANIFEST_JSON
          THEN ManifestFile(V3, e.files[k].mtime + 1)
          ELSE e.files[k]]]

\* The package is updated in place: manifest.json of its install root is
\* rewritten.
EditManifest ==
  /\ probe.kind = "resolved"
  /\ probe.root.ok
  /\ HasFile(probe.root.val, MANIFEST_JSON)
  /\ Rescan("manifest",
            [probe.dir EXCEPT !.subs =
               [k \in 1..Len(probe.dir.subs) |->
                  IF probe.dir.subs[k] = probe.root.val
                    THEN EditedManifest(probe.root.val)
                    ELSE probe.dir.subs[k]]],
            probe.buckets)

\* A bucket holding the package's manifest is added to buckets/.
AddToBucket ==
  /\ probe.kind = "resolved"
  /\ \A i \in 1..Len(probe.buckets) : probe.buckets[i].name # MAIN
  /\ Rescan("bucket", probe.dir,
            probe.buckets \o <<Bucket(MAIN, TRUE, {probe.dir.name})>>)

\* An empty version directory is created in the package directory, whose own
\* modification time changes.
AddVersionDir ==
  /\ probe.kind = "resolved"
  /\ \A i \in 1..Len(probe.dir.subs) : probe.dir.subs[i].name # V2
  /\ Rescan("version",
            [probe.dir EXCEPT !.subs = @ \o <<Entry(V2, TRUE, probe.dir.mtime + 1, <<>>)>>,
                              !.mtime = @ + 1],
            probe.buckets)

ProbeNext ==
  \/ Resolve
  \/ Fingerprint
  \/ \E d \in FpPool : AddDir(d)
  \/ \E i \in 1..MaxDirs : RemoveDir(i)
  \/ \E i \in 1..MaxDirs : TouchDir(i)
  \/ \E i \in 1..MaxDirs : TouchRoot(i)
  \/ \E l \in ProbeLists : Permute(l)
  \/ Recognize
  \/ EditManifest
  \/ AddToBucket
  \/ AddVersionDir

ProbeSpec == ProbeInit /\ [][ProbeNext]_vars

(***************************************************************************)
(* Properties                                                              *)
(***************************************************************************)

ScanOps == {"scan", "warmup", "refresh"}

\* A refresh that took the debounced short cut.
ShortCut(p) == loc[p].op = "refresh" /\ IsSome(loc[p].saw)

\* C1: after any scan (scan_installed or refresh_installed) returns Ok, the
\* fingerprint held by the package-list cache equals the one held by the
\* version-list cache (both empty counts as equal), on every path of the scan.
C1_ScanLeavesCachesAgreeing ==
  \A p \in Procs :
    (loc[p].op \in ScanOps /\ loc[p].pc = "done" /\ loc[p].res.kind = "ok")
      => CacheFp(installed_packages) = CacheFp(package_versions)

\* C2: under any interleaving of scans, refreshes and invalidations, no
\* reachable state has a non-empty version-list cache whose fingerprint is not
\* the one the package-list cache holds, or whose package-list cache is empty.
\* Stated for the states a reader can meet with no invalidation and no scan
\* between its two cache writes.
C2_VersionCacheReflected ==
  (IsSome(package_versions) /\ \A p \in Procs : loc[p].pc \notin {"inv2", "versions"})
    => /\ IsSome(installed_packages)
       /\ Unwrap(package_versions).fingerprint = Unwrap(installed_packages).fingerprint

\* C3: every operation that empties the package-list cache also empties the
\* version-list cache (the package-list cache is never cleared alone), and a
\* change of the root made through set_scoop_path leaves both caches empty.
C3_NeverClearedAlone ==
  /\ (installed_packages = None /\ \A p \in Procs : loc[p].pc # "inv2")
       => package_versions = None
  /\ \A p \in Procs :
       (loc[p].op = "setpath" /\ loc[p].pc = "done" /\ loc[p].newp # loc[p].scoop)
         => (installed_packages = None /\ package_versions = None)

\* C4: when nothing changes between two consecutive scan_installed calls, the
\* second computes the same fingerprint and returns the same list as the
\* first, resolves no package and writes neither cache; it is a cache hit
\* whenever the first call got as far as listing the apps directory.
C4_Idempotent ==
  \A p \in Procs :
    (loc[p].op = "scan" /\ loc[p].pc = "done" /\ IsSome(prev) /\ ~dirty)
      => /\ loc[p].res = Unwrap(prev).res
         /\ loc[p].fp = Unwrap(prev).fp
         /\ ~loc[p].walked
         /\ ~loc[p].wrote
         /\ (Unwrap(prev).listed => loc[p].hit)

\* Two undisturbed scans in a row, the second served from a non-empty cache.
C4_Witness ==
  \E p \in Procs :
    /\ loc[p].op = "scan" /\ loc[p].pc = "done" /\ IsSome(prev) /\ ~dirty
    /\ loc[p].hit
    /\ loc[p].res.val # <<>>

\* C5 as claimed: a refresh that arrives less than the cooldown after the
\* previous refresh returned, with the package-list cache non-empty, returns
\* the cached list and neither invalidates nor rescans.
C5_DebounceFromCompletion ==
  \A p \in Procs :
    (loc[p].op = "refresh" /\ loc[p].near)
      => /\ loc[p].pc \in {"r_deb", "done"}
         /\ loc[p].pc = "done"
              => /\ IsSome(loc[p].saw)
                 /\ loc[p].res = ResOk(Unwrap(loc[p].saw))
                 /\ ~loc[p].wrote
                 /\ ~loc[p].walked

\* C5 as amended: a refresh that arrives less than the cooldown after the
\* debounce clock was last set (when the previous refresh that was not
\* debounced started), and finds the package-list cache non-empty when it
\* reads it, returns that cached list and neither invalidates nor rescans.
C5_DebounceFromClock ==
  \A p \in Procs :
    (/\ loc[p].op = "refresh"
     /\ IsSome(loc[p].arrived)
     /\ Unwrap(loc[p].arrived) < DEBOUNCE_MS)
      => \/ loc[p].pc = "r_deb"
         \/ loc[p].fell
         \/ /\ loc[p].pc = "done"
            /\ IsSome(loc[p].saw)
            /\ loc[p].res = ResOk(Unwrap(loc[p].saw))
            /\ ~loc[p].wrote
            /\ ~loc[p].walked

\* A debounced refresh that returned a non-empty cached list.
C5_Witness ==
  \E p \in Procs :
    /\ loc[p].op = "refresh" /\ loc[p].pc = "done"
    /\ IsSome(loc[p].arrived) /\ Unwrap(loc[p].arrived) < DEBOUNCE_MS
    /\ IsSome(loc[p].saw) /\ Unwrap(loc[p].saw) # <<>>

\* C6 as claimed: two refresh calls issued less than the cooldown apart (the
\* second possibly while the first is still scanning) return the same list,
\* and at most one of them resolves the packages from the filesystem.  Stated
\* for the runs in which the filesystem and the path are left alone.
C6_TwoRefreshesOneWalk ==
  envChanges = 0 =>
  /\ \A p, q \in Procs :
       (/\ p # q
        /\ loc[p].op = "refresh" /\ loc[q].op = "refresh"
        /\ loc[p].age < DEBOUNCE_MS /\ loc[q].age < DEBOUNCE_MS)
         => /\ ~(loc[p].walked /\ loc[q].walked)
            /\ (loc[p].pc = "done" /\ loc[q].pc = "done") => loc[p].res = loc[q].res
  /\ \A p \in Procs :
       (loc[p].op = "refresh" /\ IsSome(loc[p].twin))
         => /\ ~(loc[p].walked /\ Unwrap(loc[p].twin).walked)
            /\ loc[p].pc = "done" => loc[p].res = Unwrap(loc[p].twin).res

\* The refresh of caller p follows, undisturbed, a refresh issued less than
\* the cooldown before it that was not debounced and ran undisturbed itself.
FollowsRefresh(p) ==
  /\ loc[p].op = "refresh"
  /\ IsSome(loc[p].twin)
  /\ Unwrap(loc[p].twin).clean
  /\ ~dirty

\* C6 as amended: of two refresh calls issued less than the cooldown apart,
\* the second after the first (not debounced) has returned, with no other
\* command and no change of the filesystem or of the path since the first was
\* issued, both return the same result and at most one resolves the packages.
C6_SequentialRefreshesOneWalk ==
  \A p \in Procs :
    FollowsRefresh(p)
      => /\ ~(loc[p].walked /\ Unwrap(loc[p].twin).walked)
         /\ loc[p].pc = "done" => loc[p].res = Unwrap(loc[p].twin).res

\* A second refresh served the list the first one resolved.
C6_Witness ==
  \E p \in Procs :
    /\ FollowsRefresh(p) /\ loc[p].pc = "done"
    /\ Unwrap(loc[p].twin).walked
    /\ ~loc[p].walked
    /\ loc[p].res.val # <<>>

\* The command a step of caller p belongs to.
OpOf(p) == IF loc[p].op = "none" THEN loc'[p].op ELSE loc[p].op

\* C7: the debounce clock is set only by refresh_installed; a step of
\* scan_installed (warm-up and cache hits included), invalidate_cache,
\* package_install_path or set_scoop_path leaves it as it is.
C7_ClockOnlyByRefresh ==
  [][ /\ \A p \in Procs :
           (loc'[p] # loc[p] /\ OpOf(p) # "refresh") => last_refresh' = last_refresh
      /\ (last_refresh' # last_refresh /\ last_refresh' # AdvOpt(last_refresh))
           => \E p \in Procs : loc'[p] # loc[p] /\ OpOf(p) = "refresh" ]_vars

\* A scan served from the cache while the debounce clock is running.
C7_Witness ==
  \E p \in Procs :
    /\ loc[p].op = "scan" /\ loc[p].pc = "done" /\ loc[p].hit
    /\ IsSome(last_refresh)

\* C8: a refresh that is not debounced empties both caches and then scans the
\* filesystem in full, whatever fingerprint was cached before; when it returns
\* Ok with the apps directory found and no other command running, both caches
\* hold what that scan produced.
C8_RefreshRescans ==
  \A p \in Procs :
    (loc[p].op = "refresh" /\ ~ShortCut(p))
      => /\ loc[p].pc = "ensure"
              => (installed_packages = None /\ package_versions = None)
         /\ (loc[p].pc = "done" /\ loc[p].found /\ loc[p].res.kind = "ok")
              => /\ loc[p].walked
                 /\ ~loc[p].hit
                 /\ installed_packages =
                      Some(InstalledPackagesCache(loc[p].res.val, loc[p].fp))
                 /\ CacheFp(package_versions) = Some(loc[p].fp)

\* A full refresh whose fingerprint is the one that was cached when it arrived.
C8_Witness ==
  \E p \in Procs :
    /\ loc[p].op = "refresh" /\ loc[p].pc = "done" /\ ~ShortCut(p)
    /\ loc[p].walked
    /\ loc[p].had = Some(loc[p].fp)
    /\ loc[p].res.val # <<>>

\* A scan that ended because ensure_apps_path found no apps directory.
AppsNotFound(p) ==
  /\ loc[p].op \in ScanOps /\ loc[p].pc = "done"
  /\ ~ShortCut(p)
  /\ ~loc[p].found

\* C9 as claimed: when the apps directory cannot be found, the warm-up scan
\* returns an empty list and no error, whereas refresh_installed returns an
\* error.
C9_RefreshErrsWhenAppsMissing ==
  \A p \in Procs :
    AppsNotFound(p)
      => /\ loc[p].op = "warmup" => loc[p].res = ResOk(<<>>)
         /\ loc[p].op = "refresh" => loc[p].res.kind = "err"

\* C9 as amended: when the apps directory cannot be found, the warm-up scan
\* and refresh_installed alike return an empty list and no error; a scan
\* returns an error only when the apps directory was found and cannot be read.
C9_EmptyWhenAppsMissing ==
  \A p \in Procs :
    (loc[p].op \in ScanOps /\ loc[p].pc = "done" /\ ~ShortCut(p))
      => /\ ~loc[p].found => loc[p].res = ResOk(<<>>)
         /\ loc[p].res.kind = "err" => loc[p].found

\* A refresh that returned the empty list because no apps directory was found.
C9_Witness ==
  \E p \in Procs :
    AppsNotFound(p) /\ loc[p].op = "refresh" /\ loc[p].res = ResOk(<<>>)

\* C10: a cache-miss scan returns Ok with exactly one record for each
\* directory whose resolution succeeds, named after the directory and equal to
\* what that directory alone resolves to, and no record for a directory whose
\* resolution fails.
C10_FailureIsolation ==
  \A p \in Procs :
    loc[p].walked
      => /\ Len(loc[p].recs) = Len(loc[p].dirs)
         /\ Len(loc[p].pkgs) = Cardinality({i \in 1..Len(loc[p].recs) : loc[p].recs[i].ok})
         /\ \A i \in 1..Len(loc[p].recs) :
              IF loc[p].recs[i].ok
                THEN /\ loc[p].recs[i].val.name = loc[p].dirs[i]
                     /\ Cardinality({j \in 1..Len(loc[p].pkgs) :
                                       loc[p].pkgs[j].name = loc[p].dirs[i]}) = 1
                     /\ \E j \in 1..Len(loc[p].pkgs) : loc[p].pkgs[j] = loc[p].recs[i].val
                ELSE \A j \in 1..Len(loc[p].pkgs) : loc[p].pkgs[j].name # loc[p].dirs[i]
         /\ loc[p].pc = "done" => loc[p].res = ResOk(loc[p].pkgs)

\* A scan whose first directory failed and whose later directories loaded.
C10_Witness ==
  \E p \in Procs :
    /\ loc[p].walked /\ loc[p].pc = "done"
    /\ Len(loc[p].recs) > 1
    /\ ~loc[p].recs[1].ok
    /\ \E i \in 2..Len(loc[p].recs) : loc[p].recs[i].ok

(***************************************************************************)
(* Properties of the resolver and the fingerprint                          *)
(***************************************************************************)

\* The package directory has no `current` directory.
NoCurrent(d) == ~(\E i \in 1..Len(d.subs) : d.subs[i].name = CURRENT /\ d.subs[i].isDir)

\* The valid version subdirectories: directories other than `current` that
\* contain install.json or manifest.json.
ValidVersionDirs(d) ==
  {i \in 1..Len(d.subs) :
     /\ d.subs[i].isDir
     /\ d.subs[i].name # CURRENT
     /\ \E k \in 1..Len(d.subs[i].files) :
          d.subs[i].files[k].name \in {INSTALL_JSON, MANIFEST_JSON}}

\* C11: a package directory whose name is valid Unicode, with no `current` and
\* exactly one valid version subdirectory, resolves to that subdirectory as
\* install root; with no `current` and no valid version subdirectory,
\* resolution fails and the package yields no record.
C11_FallbackResolves ==
  (probe.kind = "resolved" /\ NoCurrent(probe.dir))
    => /\ \A i \in ValidVersionDirs(probe.dir) :
            (ValidVersionDirs(probe.dir) = {i} /\ probe.dir.utf8)
              => probe.root = Ok(probe.dir.subs[i])
       /\ ValidVersionDirs(probe.dir) = {} => (~probe.root.ok /\ ~probe.rec.ok)

\* C11 as first stated: whatever the name of the package directory, the one
\* valid version subdirectory is the install root.
C11_FallbackResolvesAnyName ==
  (probe.kind = "resolved" /\ NoCurrent(probe.dir))
    => /\ \A i \in ValidVersionDirs(probe.dir) :
            ValidVersionDirs(probe.dir) = {i} => probe.root = Ok(probe.dir.subs[i])
       /\ ValidVersionDirs(probe.dir) = {} => (~probe.root.ok /\ ~probe.rec.ok)

\* The one valid version directory is enumerated after a directory that holds
\* no descriptor, and is the install root.
C11_Witness ==
  /\ probe.kind = "resolved"
  /\ NoCurrent(probe.dir)
  /\ ValidVersionDirs(probe.dir) = {2}
  /\ probe.dir.subs[1].isDir
  /\ probe.root = Ok(probe.dir.subs[2])
  /\ probe.rec.ok

\* C12: adding a package directory, removing one, or changing the time the
\* stamp reads for one (install.json of its install root, else manifest.json,
\* else the install root itself) changes the fingerprint; changing the
\* modification time of a package directory itself changes the fingerprint
\* exactly when its name is valid Unicode and no install root resolves for it.
C12_FingerprintSensitivity ==
  probe.kind = "fp2"
    => /\ probe.change \in {"add", "remove", "rewrite"} => probe.fp2 # probe.fp
       /\ probe.change = "touch"
            => \A i \in 1..Len(probe.dirs) :
                 probe.dirs2[i] # probe.dirs[i]
                   => (probe.fp2 # probe.fp
                         <=> /\ probe.dirs[i].utf8
                             /\ ~locate_install_dir(probe.dirs[i]).ok)

\* C12 as stated: adding, removing or changing the modification time of one
\* package directory changes the fingerprint, and equal fingerprints mean that
\* no package directory was added, removed or modified.
C12_AnyChangeChangesFingerprint ==
  (probe.kind = "fp2" /\ probe.change \in {"add", "remove", "touch", "rewrite"})
    => probe.fp2 # probe.fp

\* Of two package directories, the one whose install root resolves had its own
\* modification time changed, and the fingerprint stayed the same.
C12_Witness ==
  /\ probe.kind = "fp2"
  /\ probe.change = "touch"
  /\ Len(probe.dirs) = 2
  /\ \E i \in 1..2 :
       /\ probe.dirs2[i].mtime # probe.dirs[i].mtime
       /\ locate_install_dir(probe.dirs[i]).ok
  /\ probe.fp2 = probe.fp

\* C13: the fingerprint of a list of package directories equals the
\* fingerprint of every permutation of that list, the directories being the
\* same.
C13_OrderIndependent ==
  (probe.kind = "fp2" /\ probe.change = "permute") => probe.fp2 = probe.fp

\* Three directories enumerated in reverse order, with different stamps.
C13_Witness ==
  /\ probe.kind = "fp2"
  /\ probe.change = "permute"
  /\ Len(probe.dirs) = 3
  /\ \A i \in 1..3 : probe.dirs2[i] = probe.dirs[4 - i]
  /\ Stamp(probe.dirs[1]) # Stamp(probe.dirs[3])
  /\ probe.fp2 = probe.fp

\* C14: when the install root has no manifest.json, and install.json is absent
\* or parses, the record has version "unknown" and the description
\* "Package: {name}".
C14_MissingManifest ==
  (/\ probe.kind = "resolved"
   /\ probe.root.ok
   /\ ~HasFile(probe.root.val, MANIFEST_JSON)
   /\ HasFile(probe.root.val, INSTALL_JSON) => GetFile(probe.root.val, INSTALL_JSON).typed)
    => /\ probe.rec.ok
       /\ probe.rec.val.version = UNKNOWN
       /\ probe.rec.val.info = PACKAGE_PREFIX \o probe.dir.name
       /\ probe.rec.val.info # <<>>

\* A version directory 1.0.0 with install.json, no manifest.json and another
\* JSON file that gives a version: the record's version is still "unknown".
C14_Witness ==
  /\ probe.kind = "resolved"
  /\ probe.root.ok
  /\ probe.root.val.name = V100
  /\ ~HasFile(probe.root.val, MANIFEST_JSON)
  /\ HasFile(probe.root.val, INSTALL_JSON)
  /\ GetFile(probe.root.val, INSTALL_JSON).typed
  /\ HasFile(probe.root.val, "z.json")
  /\ probe.rec.ok
  /\ probe.rec.val.version = UNKNOWN

\* The positions, in enumeration order, of the readable .json files of the
\* install root with a non-empty version field.
Giving(root) ==
  {k \in 1..Len(root.files) :
     /\ root.files[k].isJson
     /\ root.files[k].ok
     /\ root.files[k].version # None
     /\ root.files[k].version # Some(<<>>)}

\* Those of them other than manifest.json.
OtherGiving(root) == {k \in Giving(root) : root.files[k].name # MANIFEST_JSON}

First(S) == CHOOSE k \in S : \A j \in S : k <= j

\* manifest.json is there and fails to parse, and another readable .json file
\* of the install root has a non-empty version field.
CorruptManifestCase ==
  /\ probe.kind = "resolved"
  /\ probe.root.ok
  /\ HasFile(probe.root.val, MANIFEST_JSON)
  /\ ~GetFile(probe.root.val, MANIFEST_JSON).typed
  /\ OtherGiving(probe.root.val) # {}

\* C15: when manifest.json fails to parse and another readable .json file of
\* the install root has a non-empty version field, the record's version is the
\* install root's directory name if that name is a version string, and else
\* the version field of the first readable .json file of the install root,
\* manifest.json included, that has a non-empty one.
C15_CorruptManifestRecovery ==
  CorruptManifestCase
    => /\ probe.rec.ok
       /\ probe.rec.val.version =
            IF is_valid_version_string(probe.root.val.name)
              THEN probe.root.val.name
              ELSE Unwrap(probe.root.val.files[First(Giving(probe.root.val))].version)

\* C15 as stated: the record's version is the version field of the first
\* such other JSON file, for every install root.
C15_VersionOfFirstJson ==
  CorruptManifestCase
    => /\ probe.rec.ok
       /\ probe.rec.val.version =
            Unwrap(probe.root.val.files[First(OtherGiving(probe.root.val))].version)

\* The install root is the version directory 1.0.0, reached by the fallback;
\* its a.json gives version 2 and the record's version is 1.0.0.
C15_Witness ==
  /\ CorruptManifestCase
  /\ NoCurrent(probe.dir)
  /\ probe.root.val.name = V100
  /\ probe.root.val.files[First(OtherGiving(probe.root.val))].version = Some(V2)
  /\ probe.rec.val.version = V100

\* install.json of the install root parses and names a bucket.
NamesBucket(root) ==
  /\ HasFile(root, INSTALL_JSON)
  /\ GetFile(root, INSTALL_JSON).typed
  /\ GetFile(root, INSTALL_JSON).bucket # None

\* Both descriptors of the install root load: each is absent or parses.
DescriptorsLoad(root) ==
  /\ HasFile(root, MANIFEST_JSON) => GetFile(root, MANIFEST_JSON).typed
  /\ HasFile(root, INSTALL_JSON) => GetFile(root, INSTALL_JSON).typed

\* The bucket directories, in iteration order, that hold bucket/{name}.json.
Matching(buckets, name) ==
  {k \in 1..Len(buckets) : buckets[k].isDir /\ name \in buckets[k].manifests}

\* The source found by searching the buckets directory.
Searched(buckets, name) ==
  IF Matching(buckets, name) # {} THEN buckets[First(Matching(buckets, name))].name
  ELSE CUSTOM

\* C16: the record's source is the bucket named in install.json when both
\* descriptors load and install.json names one; in every other case it is the
\* first bucket directory in iteration order that holds bucket/{package}.json,
\* or "Custom" when there is none.
C16_BucketDetermination ==
  (probe.kind = "resolved" /\ probe.rec.ok)
    => probe.rec.val.source =
         IF DescriptorsLoad(probe.root.val) /\ NamesBucket(probe.root.val)
           THEN Unwrap(GetFile(probe.root.val, INSTALL_JSON).bucket)
           ELSE Searched(probe.buckets, probe.dir.name)

\* C16 as stated: the record's source is the bucket named in install.json
\* whenever one is named, else the first bucket directory holding the
\* package's manifest, else "Custom".
C16_InstallJsonBucketVerbatim ==
  (probe.kind = "resolved" /\ probe.rec.ok)
    => probe.rec.val.source =
         IF NamesBucket(probe.root.val)
           THEN Unwrap(GetFile(probe.root.val, INSTALL_JSON).bucket)
           ELSE Searched(probe.buckets, probe.dir.name)

\* install.json names main, manifest.json fails to parse, and the first bucket
\* directory holding the package's manifest is extras: the source is extras.
C16_Witness ==
  /\ probe.kind = "resolved"
  /\ probe.rec.ok
  /\ NamesBucket(probe.root.val)
  /\ GetFile(probe.root.val, INSTALL_JSON).bucket = Some(MAIN)
  /\ ~DescriptorsLoad(probe.root.val)
  /\ Len(probe.buckets) = 2
  /\ probe.rec.val.source = EXTRAS

\* The package directory has a subdirectory, other than `current`, whose name
\* is a version string.
HasVersionNamedDir(d) ==
  \E i \in 1..Len(d.subs) :
    d.subs[i].isDir /\ d.subs[i].name # CURRENT /\ is_valid_version_string(d.subs[i].name)

\* C17: a record is flagged is_versioned_install exactly when its source is
\* "Custom" and its package directory has a subdirectory, other than `current`,
\* named as a version; a record whose source is a bucket is never flagged.
C17_VersionedIffCustom ==
  (probe.kind = "resolved" /\ probe.rec.ok)
    => /\ probe.rec.val.is_versioned_install
            <=> (probe.rec.val.source = CUSTOM /\ HasVersionNamedDir(probe.dir))
       /\ probe.rec.val.source # CUSTOM => ~probe.rec.val.is_versioned_install

\* A bucket install with `current` and a stray version directory 1.0.0: the
\* record is not flagged.
C17_Witness ==
  /\ probe.kind = "resolved"
  /\ probe.rec.ok
  /\ probe.rec.val.source = MAIN
  /\ ~NoCurrent(probe.dir)
  /\ HasVersionNamedDir(probe.dir)
  /\ ~probe.rec.val.is_versioned_install

(***************************************************************************)
(* Properties of the commands, continued                                   *)
(***************************************************************************)

\* A package directory with subdirectories 1.0.0 and 1.1.0, no `current`, and
\* no bucket attribution: no bucket holds its manifest and no install.json in
\* it names a bucket.
VersionedCustomShape(d, buckets) ==
  /\ d.isDir
  /\ NoCurrent(d)
  /\ \E i \in 1..Len(d.subs) : d.subs[i].isDir /\ d.subs[i].name = V100
  /\ \E i \in 1..Len(d.subs) : d.subs[i].isDir /\ d.subs[i].name = V110
  /\ Matching(buckets, d.name) = {}
  /\ \A i \in 1..Len(d.subs) : ~NamesBucket(d.subs[i])

\* Caller p's scan_installed walked the tree and has its result, and nothing
\* else happened since it was issued.
ScanWalked(p) ==
  /\ loc[p].op = "scan"
  /\ loc[p].pc = "done"
  /\ loc[p].walked
  /\ ~dirty

\* The scan's result and the version-list cache show package d as a versioned
\* install with version directories 1.0.0 and 1.1.0.
ShownVersioned(p, d) ==
  /\ loc[p].res.kind = "ok"
  /\ \E j \in 1..Len(loc[p].res.val) :
       loc[p].res.val[j].name = d.name /\ loc[p].res.val[j].is_versioned_install
  /\ IsSome(package_versions)
  /\ d.name \in DOMAIN Unwrap(package_versions).versions_map
  /\ {V100, V110} \subseteq Range(Unwrap(package_versions).versions_map[d.name])

GetPathStep(p) == loc[p].op = "none" /\ loc'[p].op = "getpath"

\* Something, a directory or a file, is at apps/{name} under the current root.
EntryAt(name) ==
  /\ appsState[scoop_path] # "missing"
  /\ \E i \in 1..Len(WorldAt(scoop_path).apps) : WorldAt(scoop_path).apps[i].name = name

\* A directory is at apps/{name} under the current root.
DirAt(name) ==
  /\ appsState[scoop_path] # "missing"
  /\ \E i \in 1..Len(WorldAt(scoop_path).apps) :
       WorldAt(scoop_path).apps[i].name = name /\ WorldAt(scoop_path).apps[i].isDir

\* package_install_path leaves both caches, the scoop path and the debounce
\* clock as they are.
GetPathLeaves ==
  /\ installed_packages' = installed_packages
  /\ package_versions' = package_versions
  /\ scoop_path' = scoop_path
  /\ last_refresh' = last_refresh

\* C19: package_install_path(name) returns an error when nothing is at
\* apps/{name} under the current scoop path and otherwise returns that path; in
\* both cases it leaves both caches, the scoop path and the debounce clock
\* unchanged.
C19_PathOrError ==
  [][ \A p \in Procs :
        GetPathStep(p)
          => /\ loc'[p].pc = "done"
             /\ loc'[p].res = IF EntryAt(loc'[p].arg)
                                THEN ResOk(<<scoop_path, loc'[p].arg>>)
                                ELSE ResErr
             /\ GetPathLeaves ]_vars

\* C19 as stated: the error is returned when the directory apps/{name} does
\* not exist, and the path otherwise.
C19_ErrorUnlessDirectory ==
  [][ \A p \in Procs :
        GetPathStep(p)
          => /\ loc'[p].pc = "done"
             /\ loc'[p].res = IF DirAt(loc'[p].arg)
                                THEN ResOk(<<scoop_path, loc'[p].arg>>)
                                ELSE ResErr
             /\ GetPathLeaves ]_vars

\* package_install_path(x) has returned the path of the plain file apps/x,
\* with both caches filled by an earlier scan.
C19_Witness ==
  \E p \in Procs :
    /\ loc[p].op = "getpath" /\ loc[p].pc = "done"
    /\ loc[p].arg = NameX
    /\ loc[p].res = ResOk(<<scoop_path, NameX>>)
    /\ EntryAt(NameX) /\ ~DirAt(NameX)
    /\ IsSome(installed_packages) /\ IsSome(package_versions)

(***************************************************************************)
(* Concurrent calls under fair scheduling                                  *)
(*                                                                         *)
(* scan_installed, refresh_installed and invalidate_cache are issued by    *)
(* the callers at any time, while the apps directory and the resolved root *)
(* change.  The runtime polls every task that can run, and the mutex       *)
(* serves its waiters in turn: a step of a call in flight that can be      *)
(* taken again and again is taken.  The guard of the version-list lock is  *)
(* taken and dropped within one step: nothing is awaited while it is held. *)
(***************************************************************************)

LiveStarts(p) ==
  \/ get_installed_packages_full(p)
  \/ refresh_installed_packages(p)
  \/ invalidate_installed_cache(p)

LiveEnv ==
  \/ \E st \in AppsStates : FsApps(st)
  \/ \E r \in Paths \cup {"err"} : EnvResolve(r)

LiveNext == (\E p \in Procs : LiveStarts(p) \/ Steps(p)) \/ LiveEnv

LiveSpec == Init /\ [][LiveNext]_vars /\ \A p \in Procs : SF_vars(Steps(p))

\* The steps at which a call asks for the package-list lock.
LockSteps == {"r_deb", "inv1", "pathclear", "check", "update"}

\* C20: with fair scheduling every scan_installed, refresh_installed and
\* invalidate_cache call in flight eventually returns, whatever the other
\* caller does; and a call returns an error only from the step that reads the
\* apps directory, when that directory cannot be read, never from a step that
\* asks for a lock.
C20_EveryCallReturns ==
  /\ \A p \in Procs : (loc[p].pc # "idle") ~> (loc[p].pc = "done")
  /\ [][ \A p \in Procs :
           (loc'[p].res = ResErr /\ loc[p].res # ResErr)
             => (loc[p].pc = "list" /\ ~ReadAppDirs(loc[p].apps).ok) ]_vars

\* One caller holds the package-list guard inside invalidate_cache while the
\* other's scan waits for the lock.
C20_Witness ==
  \E p, q \in Procs :
    /\ p # q
    /\ pkgLock = q
    /\ loc[q].pc = "inv2"
    /\ loc[p].op = "scan"
    /\ loc[p].pc \in LockSteps

(***************************************************************************)
(* Properties of the resolver and the fingerprint, continued               *)
(***************************************************************************)

\* The modification stamp of a version subdirectory: the time of its
\* install.json, or else of its manifest.json, or else its own.
StampOf(e) ==
  IF \E k \in 1..Len(e.files) : e.files[k].name = INSTALL_JSON
    THEN (e.files[CHOOSE k \in 1..Len(e.files) : e.files[k].name = INSTALL_JSON]).mtime
  ELSE IF \E k \in 1..Len(e.files) : e.files[k].name = MANIFEST_JSON
    THEN (e.files[CHOOSE k \in 1..Len(e.files) : e.files[k].name = MANIFEST_JSON]).mtime
  ELSE e.mtime

\* The valid version subdirectories with the greatest stamp.
Latest(d) ==
  {i \in ValidVersionDirs(d) :
     \A j \in ValidVersionDirs(d) : StampOf(d.subs[j]) <= StampOf(d.subs[i])}

\* C21: for a package directory whose name is valid Unicode, when `current`
\* is a directory it is the install root, whatever version subdirectories
\* there are; otherwise the install root is a valid version subdirectory whose
\* stamp is at least that of every other valid one, and resolution fails only
\* when there is no valid version subdirectory.  For a package directory whose
\* name is not valid Unicode, resolution fails.
C21_Precedence ==
  probe.kind = "resolved"
    => /\ ~probe.dir.utf8 => ~probe.root.ok
       /\ probe.dir.utf8
            => /\ \A i \in 1..Len(probe.dir.subs) :
                    (probe.dir.subs[i].name = CURRENT /\ probe.dir.subs[i].isDir)
                      => probe.root = Ok(probe.dir.subs[i])
               /\ NoCurrent(probe.dir)
                    => /\ probe.root.ok <=> ValidVersionDirs(probe.dir) # {}
                       /\ probe.root.ok
                            => \E i \in Latest(probe.dir) :
                                 probe.root.val = probe.dir.subs[i]

\* C21 as first stated: the same precedence whatever the name of the package
\* directory.
C21_PrecedenceAnyName ==
  probe.kind = "resolved"
    => /\ \A i \in 1..Len(probe.dir.subs) :
            (probe.dir.subs[i].name = CURRENT /\ probe.dir.subs[i].isDir)
              => probe.root = Ok(probe.dir.subs[i])
       /\ NoCurrent(probe.dir)
            => /\ probe.root.ok <=> ValidVersionDirs(probe.dir) # {}
               /\ probe.root.ok
                    => \E i \in Latest(probe.dir) : probe.root.val = probe.dir.subs[i]

\* `current` is the install root although the version directory 1.1.0 holds a
\* manifest written later.
C21_Witness ==
  /\ probe.kind = "resolved"
  /\ ~NoCurrent(probe.dir)
  /\ \E i \in ValidVersionDirs(probe.dir) :
       StampOf(probe.dir.subs[i]) > StampOf(probe.root.val)
  /\ probe.root.ok
  /\ probe.root.val.name = CURRENT

\* C22: when several valid version subdirectories share the greatest stamp,
\* the one returned as install root is the one of them enumerated first.
C22_TieFirstSeen ==
  (probe.kind = "resolved" /\ NoCurrent(probe.dir) /\ probe.root.ok
   /\ Cardinality(Latest(probe.dir)) > 1)
    => probe.root.val = probe.dir.subs[First(Latest(probe.dir))]

\* C22 as stated: the install root is the one of them enumerated last.
C22_TieLastSeen ==
  (probe.kind = "resolved" /\ NoCurrent(probe.dir) /\ probe.root.ok
   /\ Cardinality(Latest(probe.dir)) > 1)
    => probe.root.val =
         probe.dir.subs[CHOOSE i \in Latest(probe.dir) :
                          \A j \in Latest(probe.dir) : j <= i]

\* 1.0.0 and 1.1.0 carry the same stamp; 1.0.0, enumerated first, is the
\* install root.
C22_Witness ==
  /\ probe.kind = "resolved"
  /\ NoCurrent(probe.dir)
  /\ Latest(probe.dir) = {1, 2}
  /\ probe.root = Ok(probe.dir.subs[1])
  /\ probe.dir.subs[1].name = V100

AsciiDigits == {"0", "1", "2", "3", "4", "5", "6", "7", "8", "9"}
AsciiLetters == {"a", "A"}

\* C23: is_valid_version_string(s) is true exactly when s is non-empty, has
\* an ASCII digit, consists of ASCII alphanumerics, '.', '-' and '_' only, and
\* neither starts nor ends with '.' or '-'.
C23_VersionStringRecognition ==
  probe.kind = "recognized"
    => (probe.valid
          <=> /\ Len(probe.s) > 0
              /\ \E i \in 1..Len(probe.s) : probe.s[i] \in AsciiDigits
              /\ \A i \in 1..Len(probe.s) :
                   probe.s[i] \in AsciiDigits \cup AsciiLetters \cup {".", "-", "_"}
              /\ probe.s[1] \notin {".", "-"}
              /\ probe.s[Len(probe.s)] \notin {".", "-"})

\* "1-" is rejected for its last character, "_1_" is accepted.
C23_Witness ==
  /\ probe.kind = "recognized"
  /\ \/ probe.s = <<"1", "-">> /\ ~probe.valid
     \/ probe.s = <<"_", "1", "_">> /\ probe.valid

\* The names of the subdirectories of d, other than `current`, that the
\* recognizer accepts.
RecognizedNames(d) ==
  {d.subs[i].name : i \in {k \in 1..Len(d.subs) :
      /\ d.subs[k].isDir
      /\ d.subs[k].name # CURRENT
      /\ is_valid_version_string(d.subs[k].name)}}

\* The names find_latest_version_dir takes as version directories.
FallbackNames(d) == {e.name : e \in Range(VersionCandidates(d))}

\* C24: the recognizer is applied identically by fallback resolution, by the
\* versioned-install test and by the version listing: a subdirectory whose
\* name the recognizer rejects is never the install root chosen by fallback,
\* never makes a record flagged, never is listed, and the three take the same
\* names as version directories.
C24_RecognizerAppliedIdentically ==
  probe.kind = "resolved"
    => /\ (NoCurrent(probe.dir) /\ probe.root.ok)
            => is_valid_version_string(probe.root.val.name)
       /\ (probe.rec.ok /\ probe.rec.val.is_versioned_install)
            => RecognizedNames(probe.dir) # {}
       /\ Range(probe.versions) \subseteq RecognizedNames(probe.dir)
       /\ NoCurrent(probe.dir) => FallbackNames(probe.dir) = Range(probe.versions)

\* The probed directory gave a record flagged is_versioned_install.
Flagged ==
  /\ probe.kind = "resolved"
  /\ probe.rec.ok
  /\ probe.rec.val.is_versioned_install

\* C25: every record flagged is_versioned_install comes from a package
\* directory with at least one subdirectory, other than `current`, whose name
\* is a recognized version string; `current` may be there as well.
C25_FlaggedHasVersionDir == Flagged => RecognizedNames(probe.dir) # {}

\* C25 as first stated: a flagged record comes from a package directory with
\* more than one version subdirectory and no `current`.
C25_FlaggedManyAndNoCurrent ==
  Flagged => /\ Cardinality(RecognizedNames(probe.dir)) > 1
             /\ NoCurrent(probe.dir)

\* A flagged record from a directory with `current` and one version directory.
C25_Witness ==
  /\ Flagged
  /\ ~NoCurrent(probe.dir)
  /\ Cardinality(RecognizedNames(probe.dir)) = 1

(***************************************************************************)
(* Properties of the caches, continued                                     *)
(***************************************************************************)

\* The versions_map of a version-list cache is well formed for the package
\* list it was built from.
WellFormedVersions(cache, packages) ==
  LET m == cache.versions_map
  IN  /\ \A n \in DOMAIN m :
           /\ \E i \in 1..Len(packages) :
                packages[i].name = n /\ packages[i].is_versioned_install
           /\ m[n] # <<>>
           /\ \A k \in 1..Len(m[n]) :
                m[n][k] # CURRENT /\ is_valid_version_string(m[n][k])
      /\ \A i \in 1..Len(packages) :
           ~packages[i].is_versioned_install => packages[i].name \notin DOMAIN m

\* C26: the version-list cache is only ever filled by
\* update_package_versions_cache, and the map it stores has keys that are
\* names of packages flagged is_versioned_install in the list it was built
\* from, values that are non-empty lists of recognized version strings without
\* `current`, and no key for a package that is not flagged.
C26_VersionMapWellFormed ==
  [][(package_versions' # package_versions /\ IsSome(package_versions'))
       => \E p \in Procs :
            /\ loc[p].pc = "versions"
            /\ loc'[p].pc = "done"
            /\ WellFormedVersions(Unwrap(package_versions'), loc[p].pkgs)]_vars

\* A version-list cache built from a list with a flagged package, which has
\* a key, and a package that is not flagged.
C26_Witness ==
  /\ IsSome(package_versions)
  /\ NameB \in DOMAIN Unwrap(package_versions).versions_map
  /\ \E p \in Procs :
       /\ loc[p].pc = "done"
       /\ loc[p].wrote
       /\ loc[p].res.kind = "ok"
       /\ WellFormedVersions(Unwrap(package_versions), loc[p].res.val)
       /\ \E i \in 1..Len(loc[p].res.val) : ~loc[p].res.val[i].is_versioned_install

(***************************************************************************)
(* Properties of the resolver and the fingerprint, continued               *)
(***************************************************************************)

\* The install root of a package directory whose name is valid Unicode, as a
\* set: `current` if it is a directory, else the first enumerated of the valid
\* version subdirectories with the greatest stamp.
RootOf(d) ==
  IF ~NoCurrent(d)
    THEN {d.subs[i] : i \in {k \in 1..Len(d.subs) :
                               d.subs[k].name = CURRENT /\ d.subs[k].isDir}}
  ELSE IF ValidVersionDirs(d) # {} THEN {d.subs[First(Latest(d))]}
  ELSE {}

\* "{lowercased name}:{t}"
StampText(d, t) == ToAsciiLowercase(d.name) \o <<":">> \o Dec(t)

\* The stamp of a package directory: the time is the stamp of its install
\* root (install.json, else manifest.json, else the directory), or the
\* package directory's own time when there is no install root.
ExpectedStamp(d) ==
  IF RootOf(d) # {} THEN StampText(d, StampOf(CHOOSE e \in RootOf(d) : TRUE))
  ELSE StampText(d, d.mtime)

\* The stamp whose time is that of the install root directory itself.
RootDirStamp(d) ==
  IF RootOf(d) # {} THEN StampText(d, (CHOOSE e \in RootOf(d) : TRUE).mtime)
  ELSE StampText(d, d.mtime)

\* fp is "{count}|" followed by stamps joined with ';', the stamps being in
\* lexicographic order and being those of `stamped`, one each.
HasFormat(fp, count, stamped, StampFor(_)) ==
  \E order \in [1..Len(stamped) -> 1..Len(stamped)] :
    /\ \A i, j \in 1..Len(stamped) : i # j => order[i] # order[j]
    /\ LET parts == [i \in 1..Len(stamped) |-> StampFor(stamped[order[i]])]
       IN  /\ \A i \in 1..(Len(parts) - 1) :
                parts[i] = parts[i + 1] \/ StrLess(parts[i], parts[i + 1])
           /\ fp = Dec(count) \o <<"|">> \o Join(parts, <<";">>)

\* The directories of a list whose names are valid Unicode.
NamedDirs(dirs) == Filter(dirs, LAMBDA d : d.utf8)

\* C27: the fingerprint of a list of package directories is "{count}|"
\* followed by the lexicographically sorted stamps joined with ';', where
\* count is the number of directories, there is exactly one stamp for each
\* directory whose name is valid Unicode and none for the others, and a stamp
\* is "{lowercased name}:{mtime_ms}" with the time of install.json of the
\* install root, else of its manifest.json, else of the install root, and the
\* time of the package directory when no install root resolves.
C27_FingerprintFormat ==
  /\ probe.kind = "fp"
       => HasFormat(probe.fp, Len(probe.dirs), NamedDirs(probe.dirs), ExpectedStamp)
  /\ probe.kind = "fp2"
       => HasFormat(probe.fp2, Len(probe.dirs2), NamedDirs(probe.dirs2), ExpectedStamp)

\* C27 as first stated: one stamp for every directory of the list, the time
\* being that of the install root when it resolves.
C27_OneStampPerDirectory ==
  /\ probe.kind = "fp"
       => HasFormat(probe.fp, Len(probe.dirs), probe.dirs, RootDirStamp)
  /\ probe.kind = "fp2"
       => HasFormat(probe.fp2, Len(probe.dirs2), probe.dirs2, RootDirStamp)

\* Three directories: one whose name is not valid Unicode, one whose install
\* root is a version directory and one with no install root; the fingerprint
\* counts three and holds two stamps.
C27_Witness ==
  /\ probe.kind = "fp"
  /\ Len(probe.dirs) = 3
  /\ Len(NamedDirs(probe.dirs)) = 2
  /\ \E i, j \in 1..3 :
       /\ probe.dirs[i].utf8 /\ probe.dirs[j].utf8
       /\ RootOf(probe.dirs[i]) # {} /\ NoCurrent(probe.dirs[i])
       /\ RootOf(probe.dirs[j]) = {}
  /\ probe.fp = <<"3", "|", "b", ":", "1", ";", "c", ":", "3">>

\* manifest.json or install.json of the install root is there and does not
\* parse.
CorruptDescriptor(root) ==
  \E k \in 1..Len(root.files) :
    /\ root.files[k].name \in {MANIFEST_JSON, INSTALL_JSON}
    /\ ~root.files[k].typed

\* C28: once the install root is found the package yields a record, whether
\* manifest.json and install.json are absent, valid or corrupt; a package
\* yields no record only when its directory name is invalid or it has neither
\* `current` nor a valid version subdirectory.
C28_ResolutionNeverFails ==
  probe.kind = "resolved"
    => /\ probe.root.ok => probe.rec.ok
       /\ ~probe.rec.ok
            => \/ ~probe.dir.utf8
               \/ NoCurrent(probe.dir) /\ ValidVersionDirs(probe.dir) = {}

\* An install root whose manifest.json and install.json are both corrupt
\* still yields a record.
C28_Witness ==
  /\ probe.kind = "resolved"
  /\ probe.root.ok
  /\ \E k \in 1..Len(probe.root.val.files) : probe.root.val.files[k] = BrokenManifest
  /\ \E k \in 1..Len(probe.root.val.files) : probe.root.val.files[k] = BrokenInstall
  /\ CorruptDescriptor(probe.root.val)
  /\ probe.rec.ok

(***************************************************************************)
(* Properties of the commands, continued                                   *)
(***************************************************************************)

\* C29: with one command at a time, a scan that missed the cache first writes
\* the package-list cache, the list it resolved paired with the fingerprint it
\* computed at its start, leaving the version-list cache as it was; it then
\* writes the version-list cache with that same fingerprint, and returns the
\* list while the package-list cache still holds exactly that list and
\* fingerprint.
C29_WriteThrough ==
  [][\A p \in Procs :
       /\ (loc[p].pc = "update" /\ loc'[p].pc # "update")
            => /\ loc'[p].pc = "versions"
               /\ installed_packages' =
                    Some([packages |-> loc[p].pkgs, fingerprint |-> loc[p].fp])
               /\ package_versions' = package_versions
       /\ (loc[p].pc = "versions" /\ loc'[p].pc # "versions")
            => /\ loc'[p].pc = "done"
               /\ loc'[p].res = ResOk(loc[p].pkgs)
               /\ installed_packages =
                    Some([packages |-> loc[p].pkgs, fingerprint |-> loc[p].fp])
               /\ installed_packages' = installed_packages
               /\ IsSome(package_versions')
               /\ Unwrap(package_versions').fingerprint = loc[p].fp]_vars

\* The second command of a run, a scan that missed the cache, has returned:
\* both caches hold the fingerprint it computed and the package-list cache
\* holds the list it returned, which is not empty.
C29_Witness ==
  \E p \in Procs :
    /\ loc[p].pc = "done"
    /\ loc[p].walked
    /\ loc[p].res.kind = "ok"
    /\ loc[p].res.val # <<>>
    /\ opsStarted = 2
    /\ installed_packages =
         Some([packages |-> loc[p].res.val, fingerprint |-> loc[p].fp])
    /\ IsSome(package_versions)
    /\ Unwrap(package_versions).fingerprint = loc[p].fp

\* Caller p is past its cache check, has resolved the packages itself and has
\* not finished its scan.
Walking(p) == loc[p].walked /\ loc[p].pc \in {"update", "versions"}

\* C30: the cache accesses of concurrent scans are serialized, the resolution
\* of the packages is not: a scan whose cache check comes after another scan
\* wrote the package-list cache with the same fingerprint, the cache not
\* having been cleared since, takes its result from the cache and resolves
\* nothing; a scan whose check finds the cache empty resolves the packages
\* itself, whether or not another scan is doing so.
C30_HitAfterWrite ==
  [][\A p \in Procs :
       (loc[p].pc = "check" /\ loc'[p].pc # "check")
         => /\ \A q \in Procs \ {p} :
                 (/\ loc[q].wrote
                  /\ loc[q].fp = loc[p].fp
                  /\ installed_packages =
                       Some([packages |-> loc[q].pkgs, fingerprint |-> loc[q].fp]))
                   => /\ loc'[p].hit
                      /\ ~loc'[p].walked
                      /\ loc'[p].res = ResOk(loc[q].pkgs)
            /\ installed_packages = None => loc'[p].walked]_vars

\* C30 as first stated: of two scans in flight at the same time over an
\* unchanged tree, at most one resolves the packages.
C30_AtMostOneWalks ==
  envChanges = 0 => \A p, q \in Procs : (Walking(p) /\ Walking(q)) => p = q

\* A scan took the list from the cache while the scan that wrote it was still
\* in flight.
C30_Witness ==
  \E p, q \in Procs :
    /\ p # q
    /\ loc[p].pc = "done" /\ loc[p].hit /\ ~loc[p].walked
    /\ loc[q].pc = "versions" /\ loc[q].walked
    /\ loc[p].res = ResOk(loc[q].pkgs)
    /\ loc[p].res.val # <<>>

\* What the interface shows of a load: nothing, or the version, source, info
\* and is_versioned_install of the record.
Shown(rec) ==
  IF rec.ok
    THEN <<rec.val.version, rec.val.source, rec.val.info, rec.val.is_versioned_install>>
    ELSE <<>>

\* C31: a change of the tree that alters the version, source, info or
\* is_versioned_install of a record, or whether there is a record, also
\* changes the fingerprint; so a list served from the cache on a fingerprint
\* match equals the list a fresh resolution would give.
C31_CacheSound ==
  probe.kind = "rescanned"
    => (probe.fp2 = probe.fp => Shown(probe.rec2) = Shown(probe.rec))

\* C32: once invalidate_cache has returned, a scan that computed its
\* fingerprint or resolved its list before that writes neither cache.
C32_InvalidationNotLost ==
  [][\A q \in Procs :
       (loc[q].stale /\ loc'[q] # loc[q])
         => /\ installed_packages' = installed_packages
            /\ package_versions' = package_versions]_vars

\* C33: a refresh inside the debounce window that finds the package-list cache
\* empty sets the debounce clock, then empties both caches and resolves the
\* packages as a refresh outside the window does; one that finds a cached list
\* returns it and leaves the clock and the caches as they are.
C33_EmptyCacheFallsThrough ==
  [][\A p \in Procs :
       /\ (loc[p].pc = "r_deb" /\ loc'[p].pc # "r_deb")
            => /\ cacheVars' = cacheVars
               /\ IF installed_packages = None
                    THEN /\ last_refresh' = update_refresh_time
                         /\ loc'[p].pc = "inv1"
                    ELSE /\ last_refresh' = last_refresh
                         /\ loc'[p].pc = "done"
                         /\ loc'[p].res = ResOk(Unwrap(installed_packages).packages)
       /\ (loc[p].fell /\ loc[p].pc = "inv1" /\ loc'[p].pc # "inv1")
            => (loc'[p].pc = "inv2" /\ installed_packages' = None)
       /\ (loc[p].fell /\ loc[p].pc = "inv2" /\ loc'[p].pc # "inv2")
            => /\ loc'[p].pc = "ensure"
               /\ installed_packages' = None
               /\ package_versions' = None
       /\ (loc[p].fell /\ loc[p].pc = "check" /\ loc'[p].pc # "check")
            => (loc'[p].walked /\ ~loc'[p].hit)]_vars

\* A refresh that arrived half a second after the clock was set, found no
\* cached list, set the clock again and resolved the packages.
C33_Witness ==
  \E p \in Procs :
    /\ loc[p].op = "refresh" /\ loc[p].pc = "done"
    /\ loc[p].arrived = Some(TickMs)
    /\ loc[p].fell
    /\ loc[p].walked
    /\ loc[p].res.kind = "ok" /\ loc[p].res.val # <<>>
    /\ last_refresh = update_refresh_time

\* C34: when manifest.json or install.json of the install root is there and
\* fails to parse, the record's source comes from the search of the bucket
\* directories alone, "Custom" when it finds nothing, whatever bucket a
\* readable install.json names, and its description is
\* "Package: {name} (Custom installation)".
C34_DegradedRecordHasNoBucket ==
  (probe.kind = "resolved" /\ probe.root.ok /\ ~DescriptorsLoad(probe.root.val))
    => /\ probe.rec.ok
       /\ probe.rec.val.source = Searched(probe.buckets, probe.dir.name)
       /\ probe.rec.val.info = PACKAGE_PREFIX \o probe.dir.name \o CUSTOM_SUFFIX

\* install.json names main, manifest.json fails to parse and no bucket
\* directory holds the package's manifest: the source is "Custom".
C34_Witness ==
  /\ probe.kind = "resolved"
  /\ probe.root.ok
  /\ ~DescriptorsLoad(probe.root.val)
  /\ NamesBucket(probe.root.val)
  /\ Matching(probe.buckets, probe.dir.name) = {}
  /\ probe.rec.ok
  /\ probe.rec.val.source = CUSTOM
  /\ probe.rec.val.info =
       <<"P", "a", "c", "k", "a", "g", "e", ":", " ", "a", " ", "(", "C", "u", "s",
         "t", "o", "m", " ", "i", "n", "s", "t", "a", "l", "l", "a", "t", "i", "o",
         "n", ")">>

\* The scan of caller p has failed on reading the apps directory.
ReadFailed(p) ==
  loc[p].op = "scan" /\ loc[p].pc = "done" /\ loc[p].res.kind = "err"

\* The scan of caller p has returned the empty list for want of an apps
\* directory.
FoundNothing(p) ==
  loc[p].op = "scan" /\ loc[p].pc = "done" /\ ~loc[p].found /\ loc[p].res = ResOk(<<>>)

\* C35: a step of scan_installed never sets the debounce clock, changes a cache
\* only where the call is known to have written one and changes the scoop
\* path only where the call is known to have re-resolved it; and a call that
\* has not re-resolved the scoop path and fails because the apps directory
\* cannot be read, or returns the empty list because the apps directory is
\* missing, has written no cache.
C35_FailedScanChangesNothing ==
  [][\A p \in Procs :
       /\ (loc[p].op = "scan" /\ loc'[p].op = "scan" /\ loc'[p] # loc[p])
            => /\ last_refresh' = last_refresh
               /\ cacheVars' # cacheVars => loc'[p].wrote
               /\ scoop_path' # scoop_path => loc'[p].newp # "none"
       /\ ((ReadFailed(p)' \/ FoundNothing(p)') /\ loc'[p].newp = "none")
            => ~loc'[p].wrote]_vars

\* C35 as first stated: a scan that fails because the apps directory cannot
\* be read has changed neither the scoop path nor a cache, whether or not it
\* re-resolved the path.
C35_ReadFailureChangesNothing ==
  \A p \in Procs :
    /\ ReadFailed(p) => (loc[p].newp = "none" /\ ~loc[p].wrote)
    /\ (FoundNothing(p) /\ loc[p].newp = "none") => ~loc[p].wrote

\* A scan failed on an unreadable apps directory and the list cached by the
\* scan before it is still there.
C35_Witness ==
  \E p \in Procs :
    /\ ReadFailed(p)
    /\ loc[p].newp = "none"
    /\ ~loc[p].wrote
    /\ IsSome(installed_packages)
    /\ Unwrap(installed_packages).packages # <<>>
    /\ IsSome(package_versions)

(***************************************************************************)
(* The automatic bucket-update scheduler (lib.rs)                          *)
(***************************************************************************)

\* Bounds of the scheduler runs: seconds by which the wall clock advances at
\* a time, how far it runs, how many update tasks are spawned and how often
\* the user changes the interval.
ClockStep == 30
MaxClock == 180
MaxTasks == 3
MaxEdits == 1

OFF == <<"o", "f", "f">>
CUSTOM_PREFIX == <<"c", "u", "s", "t", "o", "m", ":">>

StartsWith(s, prefix) ==
  Len(s) >= Len(prefix) /\ SubSeq(s, 1, Len(prefix)) = prefix

DigitValue(c) == CHOOSE d \in 0..9 : DigitChar(d) = c

RECURSIVE DigitsValue(_)
DigitsValue(s) ==
  IF s = <<>> THEN 0
  ELSE 10 * DigitsValue(SubSeq(s, 1, Len(s) - 1)) + DigitValue(s[Len(s)])

\* str::parse::<u64>: an optional plus sign and at least one digit, nothing
\* else. The strings parsed here are far shorter than the twenty digits at
\* which a u64 overflows.
ParseU64(s) ==
  LET body == IF s # <<>> /\ s[1] = "+" THEN Tail(s) ELSE s
  IN  IF body # <<>> /\ \A i \in 1..Len(body) : IsAsciiDigit(body[i])
        THEN Some(DigitsValue(body))
        ELSE None

parse_interval(val) ==
  IF val \in {<<"2", "4", "h">>, <<"1", "d">>} THEN Some(86400)
  ELSE IF val \in {<<"7", "d">>, <<"1", "w">>} THEN Some(604800)
  ELSE IF val = <<"1", "h">> THEN Some(3600)
  ELSE IF val = <<"6", "h">> THEN Some(21600)
  ELSE IF val = OFF THEN None
  ELSE IF StartsWith(val, CUSTOM_PREFIX)
    THEN ParseU64(SubSeq(val, Len(CUSTOM_PREFIX) + 1, Len(val)))
  ELSE ParseU64(val)

\* Values of buckets.autoUpdateInterval: off, a named interval, custom and
\* plain numbers of seconds, and three that do not parse.
IntervalChoices ==
  { OFF,
    <<"1", "h">>,
    CUSTOM_PREFIX \o <<"6", "0">>,
    <<"9", "0">>,
    <<"+", "1", "2", "0">>,
    CUSTOM_PREFIX \o <<"1", "h">>,
    CUSTOM_PREFIX,
    <<"9", "0", "s">> }

\* The interval string the loop reads: "off" when the key is absent.
interval_raw == IF IsSome(store.interval) THEN Unwrap(store.interval) ELSE OFF

\* The recorded last run: 0 when the key is absent.
last_ts == IF IsSome(store.last_ts) THEN Unwrap(store.last_ts) ELSE 0

saturating_sub(a, b) == IF a >= b THEN a - b ELSE 0

elapsed(interval_secs) ==
  IF last_ts = 0 THEN interval_secs ELSE saturating_sub(wall_clock, last_ts)

Sleep(secs) ==
  IF secs = 0 THEN [pc |-> "run", left |-> 0] ELSE [pc |-> "sleep", left |-> secs]

\* Variant of the loop iteration that sleeps for all the time remaining.
SchedulerLoop_SleepsRemaining ==
  /\ scheduler.pc = "run"
  /\ LET interval_secs_opt == parse_interval(interval_raw)
     IN  IF ~IsSome(interval_secs_opt)
           THEN scheduler' = Sleep(30) /\ tasks' = tasks
           ELSE LET interval_secs == Unwrap(interval_secs_opt)
                IN  IF elapsed(interval_secs) >= interval_secs
                      THEN /\ Len(tasks) < MaxTasks
                           /\ tasks' = Append(tasks, [run_started_at |-> wall_clock,
                                                      pc |-> "buckets"])
                           /\ scheduler' = scheduler
                      ELSE /\ scheduler' = Sleep(interval_secs - elapsed(interval_secs))
                           /\ tasks' = tasks
  /\ UNCHANGED <<store, wall_clock>>
  /\ UNCHANGED <<appVars, probe>>

\* One iteration of the scheduler loop: read the interval and the last run,
\* then sleep 30 s when there is no interval, spawn an update task and loop
\* again at once when a run is due, and sleep at most 60 s otherwise.
SchedulerLoop ==
  /\ scheduler.pc = "run"
  /\ LET interval_secs_opt == parse_interval(interval_raw)
     IN  IF ~IsSome(interval_secs_opt)
           THEN scheduler' = Sleep(30) /\ tasks' = tasks
           ELSE LET interval_secs == Unwrap(interval_secs_opt)
                    remaining == interval_secs - elapsed(interval_secs)
                    chunk == IF remaining <= 60 THEN remaining ELSE 60
                IN  IF elapsed(interval_secs) >= interval_secs
                      THEN /\ Len(tasks) < MaxTasks
                           /\ tasks' = Append(tasks, [run_started_at |-> wall_clock,
                                                      pc |-> "buckets"])
                           /\ scheduler' = scheduler
                      ELSE /\ scheduler' = Sleep(chunk)
                           /\ tasks' = tasks
  /\ UNCHANGED <<store, wall_clock>>
  /\ UNCHANGED <<appVars, probe>>

\* What update_all_buckets gives: every bucket updated, some of them, or an
\* error.
Outcomes == {"ok", "partial", "err"}

\* update_all_buckets returns in task i: the task records the time at which
\* the run was started, whatever the outcome, and after a success or partial
\* success goes on to the package update when that is enabled.
BucketsUpdated(i) ==
  /\ i \in 1..Len(tasks)
  /\ tasks[i].pc = "buckets"
  /\ \E outcome \in Outcomes :
       tasks' = [tasks EXCEPT ![i].pc = IF outcome # "err" /\ store.packages
                                          THEN "packages" ELSE "done"]
  /\ store' = [store EXCEPT !.last_ts = Some(tasks[i].run_started_at)]
  /\ UNCHANGED <<wall_clock, scheduler>>
  /\ UNCHANGED <<appVars, probe>>

\* update_all_packages_headless returns in task i, which ends.
PackagesUpdated(i) ==
  /\ i \in 1..Len(tasks)
  /\ tasks[i].pc = "packages"
  /\ tasks' = [tasks EXCEPT ![i].pc = "done"]
  /\ UNCHANGED <<store, wall_clock, scheduler>>
  /\ UNCHANGED <<appVars, probe>>

\* Time passes: the wall clock advances and a sleeping loop wakes when its
\* sleep is over.
ClockTick ==
  /\ wall_clock + ClockStep <= Epoch + MaxClock
  /\ wall_clock' = wall_clock + ClockStep
  /\ scheduler' = IF scheduler.pc = "sleep"
                    THEN Sleep(saturating_sub(scheduler.left, ClockStep))
                    ELSE scheduler
  /\ UNCHANGED <<store, tasks>>
  /\ UNCHANGED <<appVars, probe>>

\* The user chooses another update interval in the settings.
SetInterval ==
  /\ store.edits < MaxEdits
  /\ \E v \in IntervalChoices :
       /\ Some(v) # store.interval
       /\ store' = [store EXCEPT !.interval = Some(v), !.edits = @ + 1]
  /\ UNCHANGED <<wall_clock, scheduler, tasks>>
  /\ UNCHANGED <<appVars, probe>>

\* The application starts with some interval or none in the store, a last
\* run recorded or not, and the package update enabled or not.
SchedInit ==
  /\ Quiet
  /\ probe = NoProbe
  /\ \E v \in {None} \cup {Some(c) : c \in IntervalChoices},
        t \in {None, Some(Epoch - 30), Some(Epoch - 90)},
        b \in BOOLEAN :
       store = [interval |-> v, last_ts |-> t, packages |-> b, edits |-> 0]
  /\ wall_clock = Epoch
  /\ scheduler = [pc |-> "run", left |-> 0]
  /\ tasks = <<>>

SchedNext ==
  \/ SchedulerLoop
  \/ \E i \in 1..MaxTasks : BucketsUpdated(i) \/ PackagesUpdated(i)
  \/ ClockTick
  \/ SetInterval

SchedSpec == SchedInit /\ [][SchedNext]_vars

(***************************************************************************)
(* Properties of the scheduler                                             *)
(***************************************************************************)

\* The step is one in which the loop spawns an update task.
TaskStarted == Len(tasks') > Len(tasks)

\* C36: the loop starts an update task only when every task started before
\* has finished its bucket update and recorded its run, and at least a full
\* interval after the start of each of them.
C36_SingleFlight ==
  [][TaskStarted =>
       \A i \in 1..Len(tasks) :
         /\ tasks[i].pc # "buckets"
         /\ wall_clock >= tasks[i].run_started_at
                            + Unwrap(parse_interval(interval_raw))]_vars

\* C37: when the bucket update of a task ends, with whatever outcome, the
\* recorded last run is the time at which that task was started; and the
\* loop starts no task before a full interval has passed since the start of
\* each task whose bucket update has ended.
C37_RecordsStartTime ==
  [][/\ \A i \in 1..Len(tasks) :
          (tasks[i].pc = "buckets" /\ tasks'[i].pc # "buckets")
            => store'.last_ts = Some(tasks[i].run_started_at)
     /\ TaskStarted =>
          \A i \in 1..Len(tasks) :
            tasks[i].pc # "buckets"
              => wall_clock >= tasks[i].run_started_at
                                 + Unwrap(parse_interval(interval_raw))]_vars

\* The time recorded at the end of a bucket update is the time at which its
\* task was started.
RecordedAtEndIsStart ==
  [][\A i \in 1..Len(tasks) :
       (tasks[i].pc = "buckets" /\ tasks'[i].pc # "buckets")
         => store'.last_ts = Some(tasks[i].run_started_at)]_vars

SchedTypeOK ==
  /\ scheduler.pc \in {"run", "sleep"}
  /\ Len(tasks) <= MaxTasks

\* The interval strings that stand for a number of seconds.
Numbered ==
  { <<"1", "h">>, CUSTOM_PREFIX \o <<"6", "0">>, <<"9", "0">>, <<"+", "1", "2", "0">> }

\* A run is due: the interval is a number of seconds and either no run is
\* recorded or at least that many seconds have passed since the recorded one.
Due ==
  /\ interval_raw \in Numbered
  /\ IsSome(parse_interval(interval_raw))
  /\ \/ last_ts = 0
     \/ wall_clock - last_ts >= Unwrap(parse_interval(interval_raw))

\* C38: the loop starts an update task only when a run is due, and an
\* iteration made when no run is due starts nothing and puts the loop to
\* sleep: for 30 s when the interval is off or does not parse, for at least
\* one and at most 60 s when the run is not yet due.
C38_TriggerCondition ==
  [][/\ TaskStarted => (scheduler.pc = "run" /\ Due /\ scheduler' = scheduler)
     /\ (scheduler.pc = "run" /\ scheduler' # scheduler)
          => /\ ~Due
             /\ tasks' = tasks
             /\ scheduler'.pc = "sleep"
             /\ IF interval_raw \in Numbered
                  THEN scheduler'.left \in 1..60
                  ELSE scheduler'.left = 30]_vars

\* The loop slept until the interval of 90 s since the recorded run was over
\* and then started the first update task.
C38_Witness ==
  /\ interval_raw = <<"9", "0">>
  /\ store.last_ts = Some(Epoch - 30)
  /\ Len(tasks) = 1
  /\ tasks[1].pc = "buckets"
  /\ tasks[1].run_started_at >= Epoch - 30 + 90

====
